---------------------------- MODULE Spec2Model ----------------------------
(***************************************************************************)
(* A model of the PRT particle-file codec (prtio): the type registry, the  *)
(* conversion rules, the channel layout, the output stream prt_ofstream    *)
(* and the input stream prt_ifstream (the chunked-metadata revision that   *)
(* matches prt_ofstream).                                                  *)
(*                                                                         *)
(* Memory and file contents are sequences of bytes (0..255).  Integers are *)
(* little-endian two's complement, float32 values are IEEE-754 bit         *)
(* patterns.  zlib is an external collaborator: the deflate stream is      *)
(* modelled as a sequence of tokens, one per plaintext byte, closed by an  *)
(* end-of-stream token.                                                    *)
(***************************************************************************)
EXTENDS Integers, Sequences, FiniteSets, TLC

VARIABLES
    \* ---- type-registry / conversion-matrix probe
    cm_dest, cm_src, cm_result,
    \* ---- name-validation probe
    nv_name, nv_bind, nv_open,
    \* ---- the streams
    scn,    \* which bounded input sets a behaviour draws from (never changes)
    ofs,    \* the prt_ofstream object (with its prt_ostream base)
    file,   \* the file on disk
    ifs,    \* the prt_ifstream object (with its prt_istream base)
    hist,   \* history variables: what the callers did and were told
    \* ---- a prt_layout of its own
    lay     \* the layout, the last call made on it and what the call did

cmVars == <<cm_dest, cm_src, cm_result>>
nvVars == <<nv_name, nv_bind, nv_open>>
vars == <<cm_dest, cm_src, cm_result, nv_name, nv_bind, nv_open,
          scn, ofs, file, ifs, hist, lay>>

---------------------------------------------------------------------------
(* Type registry: data_types::enum_t and data_types::sizes.                *)

type_int16 == 0
type_int32 == 1
type_int64 == 2
type_float16 == 3
type_float32 == 4
type_float64 == 5
type_uint16 == 6
type_uint32 == 7
type_uint64 == 8
type_int8 == 9
type_uint8 == 10
type_count == 11

DataTypes == type_int16 .. (type_count - 1)

sizes == <<2, 4, 8, 2, 4, 8, 2, 4, 8, 1, 1>>

SizeOf(type) == sizes[type + 1]

---------------------------------------------------------------------------
(* Conversion engine: detail::is_float, is_signed, is_compatible.          *)

is_float(type) == type >= type_float16 /\ type <= type_float64

is_integral(type) == ~is_float(type)

\* A plausible slip: the out-of-sequence int8 tag forgotten.
is_signed_no_int8(type) == type < type_uint16

is_signed(type) == type < type_uint16 \/ type = type_int8

is_compatible(dest, src) ==
    IF is_float(src) THEN is_float(dest)
    ELSE IF is_signed(src)
         THEN is_signed(dest) /\ SizeOf(dest) >= SizeOf(src)
         ELSE IF is_signed(dest) THEN SizeOf(dest) > SizeOf(src)
                                 ELSE SizeOf(dest) >= SizeOf(src)

---------------------------------------------------------------------------
(* Name validation: detail::is_valid_name (prt_layout.hpp) and             *)
(* detail::is_valid_channel_name (prt_header.hpp).  A name is a sequence   *)
(* of one-character strings.                                               *)

UpperChars == {"A","B","C","D","E","F","G","H","I","J","K","L","M",
               "N","O","P","Q","R","S","T","U","V","W","X","Y","Z"}
LowerChars == {"a","b","c","d","e","f","g","h","i","j","k","l","m",
               "n","o","p","q","r","s","t","u","v","w","x","y","z"}
DigitChars == {"0","1","2","3","4","5","6","7","8","9"}

isalpha(c) == c \in UpperChars \cup LowerChars

isalnum(c) == isalpha(c) \/ c \in DigitChars

is_valid_name(name) ==
    IF Len(name) = 0 THEN FALSE
    ELSE IF ~isalpha(name[1]) /\ name[1] # "_" THEN FALSE
    ELSE \A i \in 2..Len(name) : ~(~isalnum(name[i]) /\ name[i] # "_")

\* The C loop: length starts at 1 and is incremented before each further
\* character is examined.
is_valid_channel_name(name) ==
    IF Len(name) = 0 THEN FALSE
    ELSE IF ~isalpha(name[1]) /\ name[1] # "_" THEN FALSE
    ELSE \A i \in 2..Len(name) :
            ~(i >= 32 \/ (~isalnum(name[i]) /\ name[i] = "_"))

---------------------------------------------------------------------------
(* Bytes, integers and float32 values.                                     *)

\* The signedness of the C++ type behind each tag (data_types typedefs).
cpp_signed(type) == type \in {type_int8, type_int16, type_int32, type_int64}

Fill(n, b) == [i \in 1..n |-> b]

\* static_cast between two integer types on little-endian two's complement
\* bytes: truncation keeps the low bytes, widening sign- or zero-extends.
cast_int(destSize, srcSigned, b) ==
    IF destSize <= Len(b) THEN SubSeq(b, 1, destSize)
    ELSE b \o Fill(destSize - Len(b),
                   IF srcSigned /\ b[Len(b)] >= 128 THEN 255 ELSE 0)

\* A widening cast that forgets the sign.
convert_element_zero_extend(dest, src, b) ==
    IF dest = src THEN b
    ELSE IF SizeOf(dest) <= Len(b) THEN SubSeq(b, 1, SizeOf(dest))
    ELSE b \o Fill(SizeOf(dest) - Len(b), 0)

\* prt_converter<TDest,TSrc>::apply on one element: memcpy when the types
\* are the same, static_cast otherwise (integer pairs only: conversions to
\* or from a floating-point type are not drawn by any action below).
convert_element(dest, src, b) ==
    IF dest = src THEN b
    ELSE cast_int(SizeOf(dest), cpp_signed(src), b)

\* The element loop of apply(): `arity` consecutive elements.
RECURSIVE convert_array(_, _, _, _)
convert_array(dest, src, b, arity) ==
    IF arity = 0 THEN << >>
    ELSE convert_element(dest, src, SubSeq(b, 1, SizeOf(src)))
         \o convert_array(dest, src, SubSeq(b, SizeOf(src) + 1, Len(b)), arity - 1)

\* float32, as the IEEE-754 single bit pattern in little-endian bytes.
f32_is_nan(a) ==
    a[4] % 128 = 127 /\ a[3] >= 128 /\ (a[3] % 128 # 0 \/ a[2] # 0 \/ a[1] # 0)

f32_negative(a) == a[4] >= 128

f32_magnitude(a) == (a[4] % 128) * 16777216 + a[3] * 65536 + a[2] * 256 + a[1]

\* operator< on two floats.
f32_less(a, b) ==
    /\ ~f32_is_nan(a)
    /\ ~f32_is_nan(b)
    /\ IF f32_negative(a)
       THEN IF f32_negative(b)
            THEN f32_magnitude(a) > f32_magnitude(b)
            ELSE f32_magnitude(a) # 0 \/ f32_magnitude(b) # 0
       ELSE ~f32_negative(b) /\ f32_magnitude(a) < f32_magnitude(b)

\* std::numeric_limits<float>::max(): 0x7F7FFFFF.
FLT_MAX == <<255, 255, 127, 127>>
\* std::numeric_limits<float>::min(), the smallest positive normal: 0x00800000.
FLT_MIN == <<0, 0, 128, 0>>

---------------------------------------------------------------------------
(* Transform classification: channel_transformation (prt_transforms.hpp). *)

xform_unspecified == 0
xform_point == 1
xform_vector == 2
xform_normal == 3
xform_orientation == 4
xform_rotation == 5
xform_scalar == 6
xform_invalid == 7

xform_is_compatible(xformType, type, arity) ==
    IF xformType \in {xform_point, xform_vector, xform_normal}
    THEN is_float(type) /\ arity = 3
    ELSE IF xformType \in {xform_orientation, xform_rotation}
    THEN is_float(type) /\ arity = 4
    ELSE IF xformType = xform_scalar
    THEN is_float(type) /\ arity = 1
    ELSE TRUE

---------------------------------------------------------------------------
(* Channel layout: prt_layout.                                             *)

NamePosition == <<"P", "o", "s", "i", "t", "i", "o", "n">>
NameBoundBox == <<"B", "o", "u", "n", "d", "B", "o", "x">>

EmptyMap == [x \in {} |-> 0]

EmptyLayout == [m_channelMap |-> EmptyMap, m_channels |-> << >>, m_totalSize |-> 0]

has_channel(layout, name) == name \in DOMAIN layout.m_channelMap

num_channels(layout) == Cardinality(DOMAIN layout.m_channelMap)

get_channel(layout, name) == layout.m_channelMap[name]

layout_size(layout) == layout.m_totalSize

effective_xform(name, xformType) ==
    IF xformType = xform_unspecified /\ name = NamePosition THEN xform_point
    ELSE xformType

\* Which exception add_channel throws, "none" when it throws nothing.
add_channel_error(layout, name, type, arity, xformType) ==
    IF ~is_valid_name(name) THEN "invalid_name"
    ELSE IF has_channel(layout, name) THEN "duplicate"
    ELSE IF ~xform_is_compatible(effective_xform(name, xformType), type, arity)
    THEN "incompatible_transform"
    ELSE "none"

add_channel(layout, name, type, arity, offset, xformType) ==
    [m_channelMap |-> (name :> [offset |-> offset, arity |-> arity, type |-> type,
                                xformType |-> effective_xform(name, xformType)])
                      @@ layout.m_channelMap,
     m_channels |-> Append(layout.m_channels, name),
     m_totalSize |-> layout.m_totalSize + SizeOf(type) * arity]

layout_clear(layout) ==
    [layout EXCEPT !.m_channelMap = EmptyMap, !.m_totalSize = 0]

\* A newly constructed prt_layout on which no call was made yet; added holds
\* the names add_channel took since the last clear().
lay_init ==
    [layout |-> EmptyLayout, op |-> "none", ret |-> "none", added |-> << >>,
     name |-> << >>, type |-> 0, arity |-> 0, xformType |-> 0]

---------------------------------------------------------------------------
(* The file on disk.  The header is kept field by field, the metadata as   *)
(* the chunk sequence, the channel table as a sequence of entries, and the *)
(* compressed body as a token sequence: one token per plaintext byte and a *)
(* final EndToken for the end of the deflate stream.                       *)

\* The end-of-stream token: one past the largest byte value.
EndToken == 255 + 1

meta_type_string == -1

NoFile ==
    [created |-> FALSE, magic_ok |-> FALSE, sig_ok |-> FALSE, headerLength |-> 0,
     version |-> 0, particleCount |-> 0, chunks |-> << >>, reserved |-> 0,
     headerPad |-> 0,
     channelCount |-> 0, perChannelLength |-> 0, channels |-> << >>, body |-> << >>]

\* sizeof(prt_header_v1) and sizeof(prt_channel_header_v1)
sizeof_prt_header_v1 == 56
sizeof_prt_channel_header_v1 == 44
\* (char*)&header.particleCount - (char*)&header
offsetof_particleCount == 48

MetaChunk(channelName, valueName, valueType, data) ==
    [tag |-> "Meta", channelName |-> channelName, valueName |-> valueName,
     valueType |-> valueType, data |-> data]

StopChunk ==
    [tag |-> "Stop", channelName |-> << >>, valueName |-> << >>,
     valueType |-> 0, data |-> << >>]

\* A measure that leaves out the terminator of the value name.
measure_meta_chunk_no_nul(c) ==
    Len(c.channelName) + 1 + Len(c.valueName) + 4 + Len(c.data)

\* measure_meta_chunk, with get_value_size = the number of value bytes
measure_meta_chunk(c) ==
    Len(c.channelName) + 1 + Len(c.valueName) + 1 + 4 + Len(c.data)

\* The chunkLength field: measure_stop_chunk() is 0.
chunk_length(c) ==
    IF c.tag = "Stop" THEN 0 ELSE measure_meta_chunk(c)

\* The file offset just after the first k chunks.
RECURSIVE chunks_end(_, _)
chunks_end(chunks, k) ==
    IF k = 0 THEN sizeof_prt_header_v1
    ELSE chunks_end(chunks, k - 1) + 8 + chunk_length(chunks[k])

\* write_meta_chunk's result: where the value bytes of chunk k start.
value_location(chunks, k) ==
    chunks_end(chunks, k - 1) + 8
    + Len(chunks[k].channelName) + 1 + Len(chunks[k].valueName) + 1 + 4

\* A 32-bit integer as the four bytes the file holds, and back.
int32_bytes(n) == [k \in 1..4 |-> (n \div (256 ^ (k - 1))) % 256]

int32_value(b) ==
    b[1] + 256 * b[2] + 65536 * b[3]
    + 16777216 * (IF b[4] >= 128 THEN b[4] - 256 ELSE b[4])

\* Where the reserved int is stored: after the chunk section and the
\* headerPad further bytes (all zero) a later format revision appended to
\* the header.
reserved_location(f) == chunks_end(f.chunks, Len(f.chunks)) + f.headerPad

\* The bytes of the file from the end of the chunk section up to the first
\* channel entry.
header_tail(f) ==
    Fill(f.headerPad, 0) \o int32_bytes(f.reserved) \o int32_bytes(f.channelCount)
    \o int32_bytes(f.perChannelLength)

\* Where the compressed body starts: after the reserved int, the channel
\* count, the per-channel length and the channel entries, each of which
\* takes perChannelLength bytes in the file.
body_location(f) ==
    reserved_location(f) + 4 + 4 + 4 + Len(f.channels) * f.perChannelLength

RECURSIVE Flatten(_)
Flatten(seqs) == IF Len(seqs) = 0 THEN << >> ELSE Head(seqs) \o Flatten(Tail(seqs))

\* seekp(loc) followed by write(bytes): the chunk values that start at loc
\* are overwritten.
patch_chunks(chunks, loc, bytes) ==
    [k \in 1..Len(chunks) |->
        LET start == value_location(chunks, k)
            data == chunks[k].data
            lo == IF loc > start THEN loc ELSE start
            hi == IF loc + Len(bytes) < start + Len(data)
                  THEN loc + Len(bytes) ELSE start + Len(data)
        IN  IF chunks[k].tag = "Meta" /\ lo < hi
            THEN [chunks[k] EXCEPT
                    !.data = SubSeq(data, 1, lo - start)
                             \o SubSeq(bytes, lo - loc + 1, hi - loc)
                             \o SubSeq(data, hi - start + 1, Len(data))]
            ELSE chunks[k]]

\* operator< of std::string on names: the bytes compared in ASCII order.
\* The element of a one-element set; the({e(x) : x \in {v}}) is e with x
\* standing for the value of v.
the(S) == CHOOSE x \in S : TRUE

CharOrder ==
    <<"0","1","2","3","4","5","6","7","8","9",
      "A","B","C","D","E","F","G","H","I","J","K","L","M",
      "N","O","P","Q","R","S","T","U","V","W","X","Y","Z","_",
      "a","b","c","d","e","f","g","h","i","j","k","l","m",
      "n","o","p","q","r","s","t","u","v","w","x","y","z">>

char_code(c) == CHOOSE k \in 1..Len(CharOrder) : CharOrder[k] = c

RECURSIVE string_less(_, _)
string_less(a, b) ==
    IF Len(b) = 0 THEN FALSE
    ELSE IF Len(a) = 0 THEN TRUE
    ELSE IF a[1] = b[1] THEN string_less(Tail(a), Tail(b))
    ELSE char_code(a[1]) < char_code(b[1])

\* The keys of a std::map<std::string, ...> in iteration order.
RECURSIVE map_order(_)
map_order(keys) ==
    IF keys = {} THEN << >>
    ELSE LET m == CHOOSE x \in keys : \A y \in keys \ {x} : string_less(x, y)
         IN  <<m>> \o map_order(keys \ {m})

---------------------------------------------------------------------------
(* The output stream: prt_ostream and prt_ofstream.                        *)

\* A bound_channel; name, srcType and destType stand for the instantiated
\* copyFn (name is kept for the statements about the stream only).
OutBound(name, srcType, arity, destType, dest) ==
    [name |-> name, srcType |-> srcType, arity |-> arity,
     destType |-> destType, dest |-> dest]

\* prt_ofstream::prt_ofstream()
ofs_constructed ==
    [m_layout |-> EmptyLayout, m_boundChannels |-> << >>,
     m_buffer |-> FALSE, m_bufferSize |-> 0, m_particleCount |-> 0,
     m_countLocation |-> 0, m_boundBoxLocation |-> 0,
     m_posChannelOffset |-> -1,
     m_bounds |-> <<FLT_MAX, FLT_MAX, FLT_MAX, FLT_MIN, FLT_MIN, FLT_MIN>>,
     m_fileMetadata |-> EmptyMap, m_channelMetadata |-> EmptyMap,
     fout_open |-> FALSE, sink_failed |-> FALSE,
     z_init |-> FALSE, z_data |-> << >>, closed |-> FALSE]

\* A bind that makes no type check before it adds the channel.
ostream_bind_error_no_type_check(o, name, srcType, arity, destType) ==
    IF has_channel(o.m_layout, name) THEN "already_bound"
    ELSE add_channel_error(o.m_layout, name, destType, arity, xform_unspecified)

\* Which exception prt_ostream::bind throws, "none" when it throws nothing.
ostream_bind_error(o, name, srcType, arity, destType) ==
    IF has_channel(o.m_layout, name) THEN "already_bound"
    ELSE IF ~is_compatible(destType, srcType) THEN "incompatible_types"
    ELSE add_channel_error(o.m_layout, name, destType, arity, xform_unspecified)

ostream_bind(o, name, srcType, arity, destType) ==
    [o EXCEPT
       !.m_layout = add_channel(o.m_layout, name, destType, arity,
                                layout_size(o.m_layout), xform_unspecified),
       !.m_boundChannels =
            Append(o.m_boundChannels,
                   OutBound(name, srcType, arity, destType, layout_size(o.m_layout)))]

\* write_header's channel loop: the first entry it throws at, 0 when it
\* throws at none.  Entry k is named m_channels[k]; the loop throws when the
\* name is not a valid channel name and get_channel throws when the name is
\* not in m_channelMap.
header_first_bad(layout) ==
    LET bad == {k \in 1..num_channels(layout) :
                   \/ ~is_valid_channel_name(layout.m_channels[k])
                   \/ ~has_channel(layout, layout.m_channels[k])}
    IN  IF bad = {} THEN 0 ELSE CHOOSE k \in bad : \A j \in bad : k <= j

\* The byte of a character.
char_byte(c) ==
    the({IF k <= 10 THEN 47 + k
         ELSE IF k <= 36 THEN 54 + k
         ELSE IF k = 37 THEN 95
         ELSE 59 + k : k \in {char_code(c)}})

\* name.c_str() written with name.size() + 1 bytes
c_str_bytes(name) == [k \in 1..Len(name) |-> char_byte(name[k])] \o <<0>>

\* The bytes write_meta_chunk and write_stop_chunk put into the file for
\* chunk c: the chunk type, the chunk length as measured and, for a metadata
\* chunk, both names, the type tag and the value.
chunk_bytes(c) ==
    IF c.tag = "Stop"
    THEN <<83, 116, 111, 112>> \o int32_bytes(0)
    ELSE <<77, 101, 116, 97>> \o int32_bytes(measure_meta_chunk(c))
         \o c_str_bytes(c.channelName) \o c_str_bytes(c.valueName)
         \o int32_bytes(c.valueType) \o c.data

\* write_header: m_fileMetadata once the BoundBox entry is forced to hold
\* m_bounds (set_array makes it a float32 array of 6 whatever it was).
forced_metadata(o) ==
    (NameBoundBox :> [type |-> type_float32, data |-> Flatten(o.m_bounds)])
    @@ o.m_fileMetadata

\* The chunks of one metadata map, in the order of its keys.
map_chunks(channelName, meta) ==
    the({[k \in 1..Len(keys) |->
             MetaChunk(channelName, keys[k], m[keys[k]].type, m[keys[k]].data)] :
           keys \in {map_order(DOMAIN meta)}, m \in {meta}})

\* The metadata chunks write_header sets out to write: the file metadata,
\* then the metadata of every channel that is in the layout.
meta_chunks(o) ==
    the({map_chunks(<< >>, fileMeta)
         \o Flatten([k \in 1..Len(names) |-> map_chunks(names[k], chanMeta[names[k]])]) :
           fileMeta \in {forced_metadata(o)},
           chanMeta \in {o.m_channelMetadata},
           names \in {map_order({n \in DOMAIN o.m_channelMetadata :
                                    has_channel(o.m_layout, n)})}})

\* The first chunk write_meta_chunk throws at (its value name is not a
\* valid name), 0 when it throws at none.
header_bad_chunk(o) ==
    the({IF bad = {} THEN 0 ELSE CHOOSE k \in bad : \A j \in bad : k <= j :
           bad \in {{k \in 1..Len(chunks) :
                       ~is_valid_channel_name(chunks[k].valueName)} :
                      chunks \in {meta_chunks(o)}}})

\* Which exception write_header throws, "none" when it throws nothing.
write_header_error(o) ==
    IF header_bad_chunk(o) # 0 THEN "invalid_metadata_name"
    ELSE IF header_first_bad(o.m_layout) = 0 THEN "none"
    ELSE IF ~is_valid_channel_name(o.m_layout.m_channels[header_first_bad(o.m_layout)])
    THEN "invalid_channel_name"
    ELSE "out_of_range"

\* The channel table write_header emits: entry i is named m_channels[i];
\* the entries before the one it throws at are on disk.
header_channels(layout) ==
    [i \in 1..(IF header_first_bad(layout) = 0 THEN num_channels(layout)
               ELSE header_first_bad(layout) - 1) |->
        [name |-> layout.m_channels[i],
         type |-> get_channel(layout, layout.m_channels[i]).type,
         arity |-> get_channel(layout, layout.m_channels[i]).arity,
         offset |-> get_channel(layout, layout.m_channels[i]).offset]]

\* A write_header that leaves a BoundBox entry of the caller as it is.
header_chunks_keep_caller(o) ==
    the({IF bad = 0
         THEN kept \o SubSeq(chunks, Len(kept) + 1, Len(chunks)) \o <<StopChunk>>
         ELSE SubSeq(kept \o SubSeq(chunks, Len(kept) + 1, Len(chunks)), 1, bad - 1) :
           kept \in {map_chunks(<< >>, o.m_fileMetadata @@ forced_metadata(o))},
           chunks \in {meta_chunks(o)},
           bad \in {header_bad_chunk(o)}})

\* The chunks write_header emits: the metadata chunks and the stop chunk, or
\* the chunks before the one write_meta_chunk throws at.
header_chunks(o) ==
    the({IF bad = 0 THEN chunks \o <<StopChunk>> ELSE SubSeq(chunks, 1, bad - 1) :
           chunks \in {meta_chunks(o)},
           bad \in {header_bad_chunk(o)}})

\* Which chunk of header_chunks holds the file-scope BoundBox, 0 when
\* write_header threw before it.
boundbox_chunk(o) ==
    the({IF at = {} THEN 0 ELSE CHOOSE k \in at : TRUE :
           at \in {{k \in 1..Len(chunks) :
                      /\ chunks[k].tag = "Meta"
                      /\ chunks[k].channelName = << >>
                      /\ chunks[k].valueName = NameBoundBox} :
                     chunks \in {header_chunks(o)}}})

\* open(): the Position offset that is remembered for the bounding box.
open_pos_offset(o) ==
    IF has_channel(o.m_layout, NamePosition)
       /\ get_channel(o.m_layout, NamePosition).type = type_float32
       /\ get_channel(o.m_layout, NamePosition).arity = 3
    THEN get_channel(o.m_layout, NamePosition).offset
    ELSE o.m_posChannelOffset

\* write_header(): the particle count written before any record exists.
header_particle_count == -1

\* The file as open() leaves it (write_header on a freshly truncated file).
written_header(o) ==
    the({[created |-> TRUE, magic_ok |-> TRUE, sig_ok |-> TRUE,
          headerLength |-> chunks_end(all \o <<StopChunk>>, Len(all) + 1),
          version |-> 2, particleCount |-> header_particle_count,
          chunks |-> header_chunks(o), headerPad |-> 0,
          reserved |-> IF bad = 0 THEN 4 ELSE 0,
          channelCount |-> IF bad = 0 THEN num_channels(o.m_layout) ELSE 0,
          perChannelLength |-> IF bad = 0 THEN sizeof_prt_channel_header_v1 ELSE 0,
          channels |-> IF bad = 0 THEN header_channels(o.m_layout) ELSE << >>,
          body |-> << >>] :
           all \in {meta_chunks(o)},
           bad \in {header_bad_chunk(o)}})

\* init_zlib(): 1 << 19
ofstream_buffer_size == 524288

\* The stream object after a successful open(): open + write_header + init_zlib.
ofstream_open(o) ==
    [o EXCEPT
       !.fout_open = TRUE,
       !.m_posChannelOffset = open_pos_offset(o),
       !.m_countLocation = offsetof_particleCount + 0,
       !.m_fileMetadata = forced_metadata(o),
       !.m_boundBoxLocation =
            the({IF at = 0 THEN o.m_boundBoxLocation
                 ELSE value_location(header_chunks(o), at) :
                   at \in {boundbox_chunk(o)}}),
       !.z_init = TRUE,
       !.m_bufferSize = IF o.m_bufferSize = 0 THEN ofstream_buffer_size ELSE o.m_bufferSize,
       !.m_buffer = TRUE]


\* The bytes the copyFn of a bound channel writes.
channel_bytes(b, val) == convert_array(b.destType, b.srcType, val, b.arity)

\* One byte past the last byte any bound channel writes.
particle_extent(bound) ==
    LET ends == {bound[i].dest + SizeOf(bound[i].destType) * bound[i].arity :
                    i \in 1..Len(bound)}
    IN  IF ends = {} THEN 0 ELSE CHOOSE e \in ends : \A x \in ends : x <= e

\* The loop of write_next_particle over the first n bound channels: each
\* copyFn writes at data + dest, a later channel over an earlier one.
RECURSIVE copy_channels(_, _, _, _)
copy_channels(data, bound, vals, n) ==
    IF n = 0 THEN data
    ELSE LET prev == copy_channels(data, bound, vals, n - 1)
             bytes == channel_bytes(bound[n], vals[n])
         IN  [k \in 1..Len(prev) |->
                 IF k > bound[n].dest /\ k <= bound[n].dest + Len(bytes)
                 THEN bytes[k - bound[n].dest]
                 ELSE prev[k]]

\* The memory at `data` after write_next_particle's loop, up to the last
\* byte written.  The channels bound since the layout was last empty lie
\* back to back from offset 0, so every byte is written by some copyFn.
particle_bytes(bound, vals) ==
    copy_channels(Fill(particle_extent(bound), 0), bound, vals, Len(bound))

\* reinterpret_cast<const float*>( data + m_posChannelOffset )[k]
float_at(data, offset, k) ==
    SubSeq(data, offset + 4 * k + 1, offset + 4 * k + 4)

\* write_impl(): the bounding box after one more particle.
bounds_after(bounds, p) ==
    [k \in 1..6 |->
        IF k <= 3
        THEN IF f32_less(p[k], bounds[k]) THEN p[k] ELSE bounds[k]
        ELSE IF f32_less(bounds[k], p[k - 3]) THEN p[k - 3] ELSE bounds[k]]

\* A write_impl that tracks the bounding box but forgets to count.
write_impl_state_no_count(o, data) ==
    [o EXCEPT
       !.m_bounds =
          IF o.m_posChannelOffset >= 0
          THEN bounds_after(o.m_bounds,
                            [k \in 1..3 |-> float_at(data, o.m_posChannelOffset, k - 1)])
          ELSE o.m_bounds]

\* write_impl(data) without the deflate call's outcome.
write_impl_state(o, data) ==
    [o EXCEPT
       !.m_particleCount = o.m_particleCount + 1,
       !.m_bounds =
          IF o.m_posChannelOffset >= 0
          THEN bounds_after(o.m_bounds,
                            [k \in 1..3 |-> float_at(data, o.m_posChannelOffset, k - 1)])
          ELSE o.m_bounds]

\* close(): the file after the deflate stream is finished and the header
\* fields are patched.
closed_file(o, f) ==
    LET flushed == IF o.m_buffer THEN [f EXCEPT !.body = o.z_data \o <<EndToken>>] ELSE f
        counted == IF o.fout_open /\ o.m_countLocation > 0
                   THEN [flushed EXCEPT !.particleCount = o.m_particleCount]
                   ELSE flushed
    IN  IF o.fout_open /\ o.m_boundBoxLocation > 0
        THEN [counted EXCEPT
                !.chunks = patch_chunks(counted.chunks, o.m_boundBoxLocation,
                                        Flatten(o.m_bounds))]
        ELSE counted

\* Which exception close() throws, "none" when it throws nothing.  m_fout
\* throws on badbit and failbit, so the flush() that follows the last
\* deflate throws out of m_fout.write when the sink takes no more bytes.
close_error(o) ==
    IF o.m_buffer /\ o.sink_failed THEN "write_failed" ELSE "none"

\* close(): the stream object afterwards.
ofstream_close(o) ==
    [o EXCEPT
       !.m_buffer = FALSE, !.z_init = FALSE, !.z_data = << >>,
       !.fout_open = FALSE,
       !.m_layout = layout_clear(o.m_layout),
       !.m_bufferSize = 0, !.m_particleCount = 0, !.m_countLocation = 0,
       !.closed = TRUE]


---------------------------------------------------------------------------
(* The input stream: prt_istream and prt_ifstream.                         *)

\* zlib return codes, by name
Z_OK == "Z_OK"
Z_STREAM_END == "Z_STREAM_END"
Z_STREAM_ERROR == "Z_STREAM_ERROR"
Z_BUF_ERROR == "Z_BUF_ERROR"

\* meta_types::type_last
meta_type_last == type_count

\* prt_ifstream::prt_ifstream()
ifs_constructed ==
    [m_layout |-> EmptyLayout, m_boundChannels |-> << >>,
     m_fileMetadata |-> EmptyMap, m_channelMetadata |-> EmptyMap,
     m_buffer |-> FALSE, m_bufferSize |-> 0, m_particleCount |-> 0,
     fin_open |-> FALSE, fin_eof |-> FALSE, fin_fail |-> FALSE, fin_pos |-> 0,
     z_init |-> FALSE, z_done |-> FALSE, inbuf |-> << >>,
     pc |-> "idle", data |-> << >>, avail_out |-> 0, opened |-> FALSE]

\* A type check that forgets the lower end of the range.
meta_chunk_throws_upper_only(c) ==
    c.valueType >= meta_type_last

\* read_meta_chunk: does the chunk's type tag make it throw?
meta_chunk_throws(c) ==
    c.valueType < meta_type_string \/ c.valueType >= meta_type_last

\* read_meta_chunk: is the value stored (both names pass the check)?
meta_chunk_stored(c) ==
    /\ (Len(c.channelName) = 0 \/ is_valid_channel_name(c.channelName))
    /\ is_valid_channel_name(c.valueName)

\* The chunks read_header visits: those before the first stop chunk, and
\* none when the version has no chunk section.
RECURSIVE chunks_before_stop(_)
chunks_before_stop(chunks) ==
    IF Len(chunks) = 0 \/ Head(chunks).tag = "Stop" THEN << >>
    ELSE <<Head(chunks)>> \o chunks_before_stop(Tail(chunks))

visited_chunks(f) ==
    IF f.version <= 1 THEN << >> ELSE chunks_before_stop(f.chunks)

\* Where read_header stands when it has dealt with the header section: a
\* version up to 1 seeks to headerLength, any later version reads chunks up
\* to and including the stop chunk and never looks at headerLength.
header_section_end(f) ==
    IF f.version <= 1
    THEN sizeof_prt_header_v1 + (f.headerLength - sizeof_prt_header_v1)
    ELSE chunks_end(f.chunks,
                    IF Len(visited_chunks(f)) < Len(f.chunks)
                    THEN Len(visited_chunks(f)) + 1 ELSE Len(f.chunks))

\* The value read_header reads as the reserved int: the four bytes at
\* header_section_end.  (The files drawn keep that position between the
\* end of the chunk section and the stored reserved int.)
read_reserved(f) ==
    LET d == header_section_end(f) - chunks_end(f.chunks, Len(f.chunks))
    IN  int32_value(SubSeq(header_tail(f), d + 1, d + 4))

\* Where read_header stands when it returns: past the reserved int, the
\* two table fields and, for each channel entry, the fixed structure and
\* the seek over the rest of the declared per-channel length.
read_header_end(f) ==
    header_section_end(f) + 4 + 4 + 4
    + Len(f.channels)
      * (sizeof_prt_channel_header_v1
         + (IF f.perChannelLength # sizeof_prt_channel_header_v1
            THEN f.perChannelLength - sizeof_prt_channel_header_v1 ELSE 0))

\* Index of the first visited chunk that makes read_meta_chunk throw, 0 if none.
first_bad_chunk(f) ==
    LET bad == {k \in 1..Len(visited_chunks(f)) :
                   visited_chunks(f)[k].tag = "Meta"
                   /\ meta_chunk_throws(visited_chunks(f)[k])}
    IN  IF bad = {} THEN 0 ELSE CHOOSE k \in bad : \A j \in bad : k <= j

\* m_fileMetadata after the first n visited chunks were read.
RECURSIVE file_metadata_after(_, _, _)
file_metadata_after(meta, cs, n) ==
    IF n = 0 THEN meta
    ELSE LET prev == file_metadata_after(meta, cs, n - 1)
             c == cs[n]
         IN  IF c.tag = "Meta" /\ meta_chunk_stored(c) /\ Len(c.channelName) = 0
             THEN (c.valueName :> [type |-> c.valueType, data |-> c.data]) @@ prev
             ELSE prev

\* m_channelMetadata after the first n visited chunks were read: a stored
\* chunk with a channel name goes into the map of that channel, which
\* operator[] creates when it is not there.
RECURSIVE channel_metadata_after(_, _, _)
channel_metadata_after(meta, cs, n) ==
    IF n = 0 THEN meta
    ELSE LET prev == channel_metadata_after(meta, cs, n - 1)
             c == cs[n]
             inner == IF c.channelName \in DOMAIN prev THEN prev[c.channelName]
                      ELSE EmptyMap
         IN  IF c.tag = "Meta" /\ meta_chunk_stored(c) /\ Len(c.channelName) > 0
             THEN (c.channelName :>
                     ((c.valueName :> [type |-> c.valueType, data |-> c.data]) @@ inner))
                  @@ prev
             ELSE prev

\* The channel loop's m_channelMetadata[ channel.channelName ]: every
\* channel that was added has a map, an empty one if no chunk named it.
force_channel_metadata(meta, names) ==
    [n \in DOMAIN meta \cup {names[k] : k \in 1..Len(names)} |->
        IF n \in DOMAIN meta THEN meta[n] ELSE EmptyMap]

\* A read_header that keeps the maps of channels that are not in the layout.
prune_channel_metadata_keep_all(meta, layout) ==
    meta

\* The loop that ends read_header: the maps of channels that are not in the
\* layout are erased.
prune_channel_metadata(meta, layout) ==
    [n \in {x \in DOMAIN meta : has_channel(layout, x)} |-> meta[n]]

\* prt_istream::get_channel_metadata( channel ): does it throw out_of_range?
get_channel_metadata_throws(i, channel) ==
    channel \notin DOMAIN i.m_channelMetadata

\* read_header's channel loop: which exception entry ch raises on top of
\* layout, "none" when it is added.
channel_entry_error(layout, ch) ==
    IF ch.type < 0 \/ ch.type >= type_count THEN "invalid_channel_type"
    ELSE IF ch.arity < 0 THEN "invalid_channel_arity"
    ELSE IF ch.offset < 0 THEN "invalid_channel_offset"
    ELSE add_channel_error(layout, ch.name, ch.type, ch.arity, xform_unspecified)

\* read_header's channel loop over entries: the layout reached and the
\* exception that stopped it.
RECURSIVE read_channels(_, _)
read_channels(layout, entries) ==
    IF Len(entries) = 0 THEN [layout |-> layout, error |-> "none"]
    ELSE LET err == channel_entry_error(layout, Head(entries))
         IN  IF err # "none" THEN [layout |-> layout, error |-> err]
             ELSE read_channels(
                    add_channel(layout, Head(entries).name, Head(entries).type,
                                Head(entries).arity, Head(entries).offset,
                                xform_unspecified),
                    Tail(entries))

\* read_header(): the exception it throws on file f, "none" when it returns.
read_header_error(i, f) ==
    IF ~f.magic_ok THEN "no_magic_number"
    ELSE IF ~f.sig_ok THEN "no_signature"
    ELSE IF f.particleCount < 0 THEN "negative_count"
    ELSE IF first_bad_chunk(f) # 0 THEN "invalid_metadata_type"
    ELSE IF read_reserved(f) # 4 THEN "reserved_not_4"
    ELSE read_channels(i.m_layout, f.channels).error

\* read_header(): the members it has assigned when it returns or throws.
read_header_state(i, f) ==
    LET err == read_header_error(i, f)
        counted == err \notin {"no_magic_number", "no_signature"}
        nChunks == IF ~counted \/ err = "negative_count" THEN 0
                   ELSE IF first_bad_chunk(f) # 0 THEN first_bad_chunk(f) - 1
                   ELSE Len(visited_chunks(f))
        inTable == counted /\ err \notin {"negative_count", "invalid_metadata_type",
                                          "reserved_not_4"}
        chunkMeta == channel_metadata_after(i.m_channelMetadata,
                                            visited_chunks(f), nChunks)
        tableLayout == read_channels(i.m_layout, f.channels).layout
        added == SubSeq(tableLayout.m_channels, Len(i.m_layout.m_channels) + 1,
                        Len(tableLayout.m_channels))
    IN  [i EXCEPT
           !.m_channelMetadata =
               IF ~inTable THEN chunkMeta
               ELSE IF err # "none" THEN force_channel_metadata(chunkMeta, added)
               ELSE prune_channel_metadata(force_channel_metadata(chunkMeta, added),
                                           tableLayout),
           !.m_particleCount = IF counted THEN f.particleCount ELSE i.m_particleCount,
           !.m_fileMetadata = file_metadata_after(i.m_fileMetadata,
                                                  visited_chunks(f), nChunks),
           !.m_layout = IF inTable THEN read_channels(i.m_layout, f.channels).layout
                        ELSE i.m_layout]


\* The read buffer init_zlib allocates.  The library uses 1 << 19 bytes; the
\* model scales the buffer down to BufferSize body tokens.
BufferSize == 4

\* open(): the stream after m_fin.open succeeded, for a header that throws
\* (err # "none") or is accepted followed by init_zlib.
ifstream_open(i, f) ==
    LET err == read_header_error(i, f)
        hdr == [read_header_state(i, f) EXCEPT !.fin_open = TRUE, !.opened = TRUE]
    IN  IF err # "none" THEN hdr
        ELSE [hdr EXCEPT
                !.z_init = TRUE, !.m_buffer = TRUE,
                !.m_bufferSize = IF hdr.m_bufferSize = 0 THEN BufferSize
                                 ELSE hdr.m_bufferSize]

\* A bound_channel of the input stream; destType is the caller's type T and
\* srcType the channel's type, together the instantiated copyFn.
InBound(name, destType, arity, src, srcType) ==
    [name |-> name, destType |-> destType, arity |-> arity,
     src |-> src, srcType |-> srcType]

\* Which exception prt_istream::bind throws, "none" when it binds.
istream_bind_error(i, name, destType, arity) ==
    IF ~has_channel(i.m_layout, name) THEN "no_such_channel"
    ELSE IF ~is_compatible(destType, get_channel(i.m_layout, name).type)
    THEN "incompatible_types"
    ELSE IF arity # get_channel(i.m_layout, name).arity THEN "incompatible_arity"
    ELSE "none"

istream_bind(i, name, destType, arity) ==
    [i EXCEPT !.m_boundChannels =
        Append(i.m_boundChannels,
               InBound(name, destType, get_channel(i.m_layout, name).arity,
                       get_channel(i.m_layout, name).offset,
                       get_channel(i.m_layout, name).type))]

\* m_fin.read( m_buffer, m_bufferSize ): the bytes obtained and the stream
\* state afterwards.
fin_read(i, body) ==
    IF ~i.fin_open \/ i.fin_eof \/ i.fin_fail
    THEN [i EXCEPT !.fin_fail = TRUE, !.inbuf = << >>]
    ELSE LET avail == Len(body) - i.fin_pos
             n == IF avail < i.m_bufferSize THEN avail ELSE i.m_bufferSize
         IN  [i EXCEPT
                !.inbuf = SubSeq(body, i.fin_pos + 1, i.fin_pos + n),
                !.fin_pos = i.fin_pos + n,
                !.fin_eof = n < i.m_bufferSize,
                !.fin_fail = n < i.m_bufferSize]

\* The number of plaintext tokens at the front of the input, at most limit.
RECURSIVE leading_data(_, _)
leading_data(tokens, limit) ==
    IF limit = 0 \/ Len(tokens) = 0 \/ Head(tokens) = EndToken THEN 0
    ELSE 1 + leading_data(Tail(tokens), limit - 1)

\* inflate( &m_zstream, Z_SYNC_FLUSH ): the return code and the stream
\* afterwards.  Output is produced while there is input and room for it;
\* the end of the deflate stream is consumed as soon as it is at the front
\* of the input, and once it was consumed every call reports it again.
inflate(i) ==
    IF ~i.z_init THEN [ret |-> Z_STREAM_ERROR, strm |-> i]
    ELSE IF i.z_done THEN [ret |-> Z_STREAM_END, strm |-> i]
    ELSE LET n == leading_data(i.inbuf, i.avail_out)
             rest == SubSeq(i.inbuf, n + 1, Len(i.inbuf))
             out == [i EXCEPT !.data = i.data \o SubSeq(i.inbuf, 1, n),
                              !.avail_out = i.avail_out - n]
         IN  IF Len(rest) > 0 /\ Head(rest) = EndToken
             THEN [ret |-> Z_STREAM_END,
                   strm |-> [out EXCEPT !.inbuf = Tail(rest), !.z_done = TRUE]]
             ELSE [ret |-> IF n > 0 THEN Z_OK ELSE Z_BUF_ERROR,
                   strm |-> [out EXCEPT !.inbuf = rest]]

\* read_next_particle(): what each bound channel's copyFn stores in the
\* caller's array from the particle in data.
extracted(bound, data) ==
    [k \in 1..Len(bound) |->
        convert_array(bound[k].destType, bound[k].srcType,
                      SubSeq(data, bound[k].src + 1,
                             bound[k].src + SizeOf(bound[k].srcType) * bound[k].arity),
                      bound[k].arity)]

\* One byte past the last byte of the particle any bound channel's copyFn
\* reads.
read_extent(bound) ==
    LET ends == {bound[k].src + SizeOf(bound[k].srcType) * bound[k].arity :
                    k \in 1..Len(bound)}
    IN  IF ends = {} THEN 0 ELSE CHOOSE e \in ends : \A x \in ends : x <= e

\* What a byte read past the end of the alloca( m_layout.size() ) block may
\* hold.
StrayBytes == {0, 255}

\* close(): the stream object afterwards.
ifstream_close(i) ==
    [i EXCEPT
       !.fin_open = FALSE,
       !.z_init = IF i.m_buffer THEN FALSE ELSE i.z_init,
       !.z_done = IF i.m_buffer THEN FALSE ELSE i.z_done,
       !.inbuf = IF i.m_buffer THEN << >> ELSE i.inbuf,
       !.m_buffer = FALSE,
       !.m_layout = layout_clear(i.m_layout),
       !.m_bufferSize = 0, !.m_particleCount = 0]


---------------------------------------------------------------------------
(* Bounds and the inputs the callers draw from.                            *)

\* Successful bind() calls per output stream (per cycle for the caller that
\* reads back the file of a reused stream).
MaxBinds == 2
\* Successful bind() calls per input stream.
MaxReaderBinds == 1
\* Successful bind() calls on the input stream that reads a crafted file.
MaxCraftedBinds == 2
\* write_next_particle() calls per output stream.
MaxWrites == 2
\* read_next_particle() calls that return false or throw, per input stream.
MaxFailedReads == 1
\* Iterations of a read loop that no longer makes progress which are counted.
MaxSpin == 2
\* bind/open/write/close cycles of a reused output stream.
MaxCycles == 2
\* Metadata entries a caller hands to an output stream.
MaxMetadata == 2
\* open() calls on an input stream after its first close().
MaxReopens == 1

NameID == <<"I", "D">>
NameA == <<"A">>
NameB == <<"B">>
NameSeven == <<"7">>
NameA_B == <<"A", "_", "B">>

SignedInts == {type_int8, type_int16, type_int32, type_int64}
UnsignedInts == {type_uint8, type_uint16, type_uint32, type_uint64}
IntTypes == SignedInts \cup UnsignedInts
FloatTypes == {type_float16, type_float32, type_float64}

\* Sample elements of a type: for the integers -1 (or the largest unsigned
\* value), the most negative value (or 2^(w-1)) and 1; for the floating
\* types -1.0, 2.0 and 0.0.
Elems(type) ==
    CASE type = type_float16 -> << <<0, 188>>, <<0, 64>>, <<0, 0>> >>
      [] type = type_float32 -> << <<0, 0, 128, 191>>, <<0, 0, 0, 64>>, <<0, 0, 0, 0>> >>
      [] type = type_float64 -> << <<0, 0, 0, 0, 0, 0, 240, 191>>,
                                   <<0, 0, 0, 0, 0, 0, 0, 64>>,
                                   <<0, 0, 0, 0, 0, 0, 0, 0>> >>
      [] OTHER -> << Fill(SizeOf(type), 255),
                     Fill(SizeOf(type) - 1, 0) \o <<128>>,
                     <<1>> \o Fill(SizeOf(type) - 1, 0) >>

\* The choices a caller's arrays are filled from before a write.
ValueChoices == IF scn \in {"roundtrip", "meta"} THEN 1..2 ELSE 1..3

\* The caller's array for choice e: choice 1 repeats the first sample,
\* the other choices run through the samples starting at sample e.
ValueChoice(type, arity, e) ==
    Flatten([k \in 1..arity |->
                Elems(type)[IF e = 1 THEN 1 ELSE ((e + k - 2) % 3) + 1]])

BindArg(name, type, arity, fileType) ==
    [name |-> name, type |-> type, arity |-> arity, fileType |-> fileType]

\* The bind() calls a writer may make: the caller's type and arity and the
\* requested on-disk type.  In the round trip channel A takes every pair of
\* integer types and every floating type kept as it is.
OutBindChoices ==
    IF scn = "roundtrip"
    THEN {BindArg(NameA, t, 2, d) : t \in IntTypes, d \in IntTypes}
         \cup {BindArg(NameA, t, 2, t) : t \in FloatTypes}
         \cup {BindArg(NameB, type_float32, 1, type_float32)}
    ELSE IF scn = "meta"
    THEN {BindArg(NamePosition, type_float32, 3, type_float32),
          BindArg(NameID, type_uint8, 1, type_uint16)}
    ELSE IF scn = "relayout"
    THEN {BindArg(NameA, type_uint8, 1, type_uint8),
          BindArg(NameB, type_uint16, 1, type_uint16)}
    ELSE IF scn = "partial"
    THEN {BindArg(NameID, type_uint8, 1, type_uint16),
          BindArg(NameA, type_uint8, 1, type_uint8),
          BindArg(NameA_B, type_uint8, 1, type_uint8)}
    ELSE {BindArg(NamePosition, type_float32, 3, type_float32),
          BindArg(NameID, type_uint8, 1, type_uint16),
          BindArg(NameID, type_int32, 1, type_int16),
          BindArg(NamePosition, type_uint8, 1, type_uint8),
          BindArg(NameSeven, type_uint8, 1, type_uint8)}

\* The bind() calls a reader may make: the caller's type and arity.  In the
\* round trip channel A is read as every integer type, and as the channel's
\* own type.
InBindChoices ==
    IF scn = "roundtrip"
    THEN {BindArg(NameA, t, 2, t) : t \in IntTypes}
         \cup {BindArg(NameA, get_channel(ifs.m_layout, NameA).type, 2,
                       get_channel(ifs.m_layout, NameA).type) :
                   x \in {y \in {NameA} : has_channel(ifs.m_layout, y)}}
         \cup {BindArg(NameB, type_float32, 1, type_float32)}
    ELSE {BindArg(NamePosition, type_float32, 3, type_float32),
          BindArg(NameID, type_uint32, 1, type_uint32),
          BindArg(NameID, type_uint8, 1, type_uint8),
          BindArg(NamePosition, type_float32, 1, type_float32)}
         \cup (IF scn = "crafted"
               THEN {BindArg(NameID, type_uint32, 2, type_uint32),
                     BindArg(NameID, type_uint16, 1, type_uint16)}
               ELSE {})

\* How many bindings an input stream takes before the caller stops binding.
ReaderBindLimit ==
    IF scn \in {"crafted", "reread"} THEN MaxCraftedBinds ELSE MaxReaderBinds

NoProbe == [done |-> FALSE, value |-> FALSE]

hist_init ==
    [o_op |-> "none", o_ret |-> "none", written |-> << >>, strayWrites |-> 0,
     lateBinds |-> 0, i_op |-> "none", i_ret |-> "none", i_opened |-> "none",
     got |-> << >>,
     failedReads |-> 0, spins |-> 0, closes |-> 0, cycleBinds |-> << >>,
     o_layout |-> EmptyLayout, o_chunks |-> << >>, callerBox |-> FALSE,
     adds |-> 0, o_binds |-> << >>, o_opened |-> "none", reopens |-> 0]

\* Whether the caller still calls the output stream: the callers of the
\* single-cycle specifications drop it after close(), the reuse caller
\* takes it through MaxCycles cycles unless a write took the process down.
WriterInUse ==
    IF scn \in {"reuse", "relayout"}
    THEN hist.closes < MaxCycles /\ hist.o_ret # "crashed"
    ELSE ~ofs.closed

---------------------------------------------------------------------------
(* Output stream actions.                                                  *)

\* prt_ostream::bind<T>( name, src, arity, destType )
o_bind(c) ==
    /\ WriterInUse
    /\ (IF scn = "relayout" THEN Len(hist.cycleBinds) ELSE Len(ofs.m_boundChannels))
       < MaxBinds
    /\ LET err == ostream_bind_error(ofs, c.name, c.type, c.arity, c.fileType)
       IN  /\ ofs' = IF err = "none"
                     THEN ostream_bind(ofs, c.name, c.type, c.arity, c.fileType)
                     ELSE ofs
           /\ hist' = [hist EXCEPT
                         !.o_op = "bind",
                         !.o_ret = IF err = "none" THEN "ok" ELSE err,
                         !.cycleBinds = IF err = "none" THEN Append(@, c) ELSE @,
                         !.lateBinds = IF err = "none" /\ ofs.fout_open
                                       THEN @ + 1 ELSE @]
    /\ UNCHANGED <<file, ifs, scn, cmVars, nvVars, lay>>

\* prt_ostream::add_file_metadata( name, value ): the entry of that name is
\* replaced; a name that is not a valid name is rejected.
o_add_file_metadata(name, value) ==
    /\ WriterInUse
    /\ hist.adds < MaxMetadata
    /\ IF is_valid_channel_name(name)
       THEN /\ ofs' = [ofs EXCEPT !.m_fileMetadata = (name :> value) @@ @]
            /\ hist' = [hist EXCEPT !.o_op = "add_file_metadata", !.o_ret = "ok",
                                    !.adds = @ + 1,
                                    !.callerBox = @ \/ name = NameBoundBox]
       ELSE /\ hist' = [hist EXCEPT !.o_op = "add_file_metadata",
                                    !.o_ret = "invalid_metadata_name"]
            /\ UNCHANGED ofs
    /\ UNCHANGED <<file, ifs, scn, cmVars, nvVars, lay>>

\* prt_ostream::add_channel_metadata( channel, name, value ): the entry of
\* that name in the channel's map is replaced, the map is created when the
\* channel has none; a name that is not a valid name is rejected.
o_add_channel_metadata(channel, name, value) ==
    /\ WriterInUse
    /\ hist.adds < MaxMetadata
    /\ IF is_valid_channel_name(name)
       THEN /\ ofs' = [ofs EXCEPT
                         !.m_channelMetadata =
                            (channel :>
                               ((name :> value)
                                @@ (IF channel \in DOMAIN @ THEN @[channel]
                                    ELSE EmptyMap)))
                            @@ @]
            /\ hist' = [hist EXCEPT !.o_op = "add_channel_metadata", !.o_ret = "ok",
                                    !.adds = @ + 1]
       ELSE /\ hist' = [hist EXCEPT !.o_op = "add_channel_metadata",
                                    !.o_ret = "invalid_metadata_name"]
            /\ UNCHANGED ofs
    /\ UNCHANGED <<file, ifs, scn, cmVars, nvVars, lay>>

\* prt_ofstream::open( file )
o_open ==
    /\ WriterInUse
    /\ LET err == write_header_error(ofs)
       IN  IF ofs.fout_open
           THEN \* m_fin.open on an open stream fails and nothing else runs
                /\ hist' = [hist EXCEPT !.o_op = "open", !.o_ret = "open_failed",
                                        !.o_opened = "open_failed"]
                /\ UNCHANGED <<ofs, file>>
           ELSE IF err = "none"
           THEN /\ file' = written_header(ofs)
                /\ ofs' = ofstream_open(ofs)
                /\ hist' = [hist EXCEPT !.o_op = "open", !.o_ret = "ok",
                                        !.o_opened = "ok",
                                        !.o_layout = ofs.m_layout,
                                        !.o_binds = hist.cycleBinds,
                                        !.o_chunks = header_chunks(ofs)]
           ELSE \* write_header throws at a chunk or at a channel entry
                /\ file' = written_header(ofs)
                /\ ofs' = [ofstream_open(ofs) EXCEPT
                              !.z_init = FALSE, !.m_buffer = FALSE,
                              !.m_bufferSize = ofs.m_bufferSize]
                /\ hist' = [hist EXCEPT !.o_op = "open", !.o_ret = err,
                                        !.o_opened = err]
    /\ UNCHANGED <<ifs, scn, cmVars, nvVars, lay>>

\* prt_ostream::write_next_particle(), the caller's arrays holding choice e
o_write_next_particle(e) ==
    /\ WriterInUse
    /\ ofs.m_particleCount < MaxWrites
    /\ LET vals == [k \in 1..Len(ofs.m_boundChannels) |->
                       ValueChoice(ofs.m_boundChannels[k].srcType,
                                   ofs.m_boundChannels[k].arity, e)]
           data == particle_bytes(ofs.m_boundChannels, vals)
           counted == write_impl_state(ofs, data)
           \* a copyFn that writes past the alloca( m_layout.size() ) block
           overrun == Len(data) > layout_size(ofs.m_layout)
       IN  \E crashes \in (IF overrun THEN BOOLEAN ELSE {FALSE}) :
           IF crashes
           THEN \* the overrun takes the process down
                /\ ofs' = ofs
                /\ hist' = [hist EXCEPT !.o_op = "write", !.o_ret = "crashed"]
           ELSE IF ofs.z_init
           THEN \* deflate takes m_layout.size() bytes of the particle
                /\ ofs' = [counted EXCEPT
                             !.z_data = @ \o SubSeq(data, 1, layout_size(ofs.m_layout))]
                /\ hist' = [hist EXCEPT !.o_op = "write", !.o_ret = "ok",
                                        !.written = Append(@, vals)]
           ELSE \* deflate on a stream that was never initialised: Z_STREAM_ERROR
                /\ ofs' = counted
                /\ hist' = [hist EXCEPT !.o_op = "write", !.o_ret = "deflate_failed",
                                        !.strayWrites = @ + 1]
    /\ UNCHANGED <<file, ifs, scn, cmVars, nvVars, lay>>

\* prt_ofstream::close()
o_close ==
    /\ WriterInUse
    /\ IF close_error(ofs) = "none"
       THEN /\ file' = closed_file(ofs, file)
            /\ ofs' = ofstream_close(ofs)
            /\ hist' = [hist EXCEPT !.o_op = "close", !.o_ret = "ok",
                                    !.closes = @ + 1, !.cycleBinds = << >>]
       ELSE \* flush() throws before delete[] m_buffer: nothing after it runs
            /\ hist' = [hist EXCEPT !.o_op = "close", !.o_ret = close_error(ofs)]
            /\ UNCHANGED <<ofs, file>>
    /\ UNCHANGED <<ifs, scn, cmVars, nvVars, lay>>

\* prt_ofstream::~prt_ofstream(): close(), after which the object is gone
o_destroy ==
    /\ WriterInUse
    /\ IF close_error(ofs) = "none"
       THEN /\ file' = closed_file(ofs, file)
            /\ ofs' = ofstream_close(ofs)
            /\ hist' = [hist EXCEPT !.o_op = "destroy", !.o_ret = "ok"]
       ELSE /\ ofs' = [ofs EXCEPT !.closed = TRUE]
            /\ hist' = [hist EXCEPT !.o_op = "destroy", !.o_ret = close_error(ofs)]
            /\ UNCHANGED file
    /\ UNCHANGED <<ifs, scn, cmVars, nvVars, lay>>

\* The sink of m_fout stops taking bytes (the disk fills up) while the
\* output stream holds compressed data in m_buffer.
sink_fails ==
    /\ ofs.m_buffer
    /\ ~ofs.sink_failed
    /\ ofs' = [ofs EXCEPT !.sink_failed = TRUE]
    /\ UNCHANGED <<file, ifs, hist, scn, cmVars, nvVars, lay>>


---------------------------------------------------------------------------
(* Input stream actions.                                                   *)

\* prt_ifstream::open( file )
i_open ==
    /\ ifs.pc = "idle"
    /\ ~ifs.opened
    /\ IF ~file.created
       THEN \* m_fin.open fails
            /\ ifs' = [ifs EXCEPT !.opened = TRUE, !.fin_fail = TRUE]
            /\ hist' = [hist EXCEPT !.i_op = "open", !.i_ret = "open_failed",
                                    !.i_opened = "open_failed"]
       ELSE /\ ifs' = ifstream_open(ifs, file)
            /\ hist' = [hist EXCEPT
                          !.i_op = "open",
                          !.i_ret = IF read_header_error(ifs, file) = "none"
                                    THEN "ok" ELSE read_header_error(ifs, file),
                          !.i_opened = IF read_header_error(ifs, file) = "none"
                                       THEN "ok" ELSE read_header_error(ifs, file)]
    /\ UNCHANGED <<ofs, file, scn, cmVars, nvVars, lay>>

\* prt_istream::bind<T>( name, dest, arity )
i_bind(c) ==
    /\ ifs.pc = "idle"
    /\ Len(ifs.m_boundChannels) < ReaderBindLimit
    /\ LET err == istream_bind_error(ifs, c.name, c.type, c.arity)
       IN  /\ ifs' = IF err = "none" THEN istream_bind(ifs, c.name, c.type, c.arity)
                     ELSE ifs
           /\ hist' = [hist EXCEPT !.i_op = "bind",
                                   !.i_ret = IF err = "none" THEN "ok" ELSE err]
    /\ UNCHANGED <<ofs, file, scn, cmVars, nvVars, lay>>

\* prt_istream::read_next_particle() up to the first iteration of
\* read_impl's loop
i_read_next_particle ==
    /\ ifs.pc = "idle"
    /\ hist.failedReads < MaxFailedReads
    /\ IF ifs.m_particleCount = 0
       THEN /\ hist' = [hist EXCEPT
                          !.i_op = "read",
                          !.i_ret = IF ~ifs.fin_open \/ ifs.fin_eof THEN "false"
                                    ELSE "count_not_reached",
                          !.failedReads = @ + 1]
            /\ ifs' = ifs
       ELSE /\ ifs' = [ifs EXCEPT !.avail_out = layout_size(ifs.m_layout),
                                  !.data = << >>, !.pc = "loop"]
            /\ hist' = [hist EXCEPT !.i_op = "read", !.i_ret = "running",
                                    !.spins = 0]
    /\ UNCHANGED <<ofs, file, scn, cmVars, nvVars, lay>>

\* One iteration of read_impl's do/while loop, and what follows the loop.
i_read_loop ==
    /\ ifs.pc = "loop"
    /\ LET refill == Len(ifs.inbuf) = 0
           filled == IF refill THEN fin_read(ifs, file.body) ELSE ifs
           r == inflate(filled)
       IN  IF refill /\ filled.fin_fail /\ ifs.m_bufferSize = 0
           THEN /\ ifs' = [filled EXCEPT !.pc = "idle"]
                /\ hist' = [hist EXCEPT !.i_ret = "read_failed",
                                        !.failedReads = @ + 1]
           ELSE IF r.ret # Z_OK /\ r.ret # Z_STREAM_END
           THEN /\ ifs' = [r.strm EXCEPT !.pc = "idle"]
                /\ hist' = [hist EXCEPT !.i_ret = "inflate_failed",
                                        !.failedReads = @ + 1]
           ELSE IF r.strm.avail_out # 0
           THEN /\ ifs' = r.strm
                /\ hist' = [hist EXCEPT
                              !.spins = IF r.strm # ifs THEN 0
                                        ELSE IF @ < MaxSpin THEN @ + 1 ELSE @]
           ELSE \* the particle is complete; a copyFn that reads past the
                \* block reads whatever lies there or takes the process down
                \E stray \in (IF read_extent(r.strm.m_boundChannels) > Len(r.strm.data)
                              THEN StrayBytes \cup {-1} ELSE {0}) :
                   IF stray = -1
                   THEN /\ ifs' = [r.strm EXCEPT !.m_particleCount = @ - 1,
                                                 !.pc = "crashed"]
                        /\ hist' = [hist EXCEPT !.i_ret = "crashed"]
                   ELSE /\ ifs' = [r.strm EXCEPT !.m_particleCount = @ - 1,
                                                 !.pc = "idle"]
                        /\ hist' = [hist EXCEPT
                                      !.i_ret = "true",
                                      !.got = Append(@,
                                          extracted(r.strm.m_boundChannels,
                                                    r.strm.data
                                                    \o Fill(read_extent(r.strm.m_boundChannels)
                                                            - Len(r.strm.data), stray)))]
    /\ UNCHANGED <<ofs, file, scn, cmVars, nvVars, lay>>

\* prt_ifstream::close()
i_close ==
    /\ ifs.pc = "idle"
    /\ ifs' = ifstream_close(ifs)
    /\ hist' = [hist EXCEPT !.i_op = "close", !.i_ret = "ok"]
    /\ UNCHANGED <<ofs, file, scn, cmVars, nvVars, lay>>

---------------------------------------------------------------------------
(* The stream specification: one writer, the file, one reader.             *)

Init ==
    /\ scn = "stream"
    /\ ofs = ofs_constructed
    /\ file = NoFile
    /\ ifs = ifs_constructed
    /\ hist = hist_init
    /\ lay = lay_init
    /\ cm_dest = type_int16 /\ cm_src = type_int16 /\ cm_result = NoProbe
    /\ nv_name = << >> /\ nv_bind = NoProbe /\ nv_open = NoProbe

Next ==
    \/ \E c \in OutBindChoices : o_bind(c)
    \/ o_open
    \/ \E e \in ValueChoices : o_write_next_particle(e)
    \/ o_close
    \/ i_open
    \/ \E c \in InBindChoices : i_bind(c)
    \/ i_read_next_particle
    \/ i_read_loop
    \/ i_close

Spec == Init /\ [][Next]_vars

---------------------------------------------------------------------------
(* The round-trip specification: the same streams driven by a caller that  *)
(* binds, opens, writes and closes, and then opens the file, binds and     *)
(* reads.                                                                  *)

InitRT ==
    /\ scn = "roundtrip"
    /\ ofs = ofs_constructed
    /\ file = NoFile
    /\ ifs = ifs_constructed
    /\ hist = hist_init
    /\ lay = lay_init
    /\ cm_dest = type_int16 /\ cm_src = type_int16 /\ cm_result = NoProbe
    /\ nv_name = << >> /\ nv_bind = NoProbe /\ nv_open = NoProbe

NextRT ==
    \/ \E c \in OutBindChoices : ~file.created /\ o_bind(c)
    \/ ~file.created /\ o_open
    \/ \E e \in ValueChoices : ofs.fout_open /\ o_write_next_particle(e)
    \/ ofs.fout_open /\ o_close
    \/ ofs.closed /\ file.created /\ i_open
    \/ \E c \in InBindChoices : hist.i_op \in {"open", "bind"} /\ i_bind(c)
    \/ ifs.opened /\ i_read_next_particle
    \/ i_read_loop
    \/ hist.i_op = "read" /\ i_close

SpecRT == InitRT /\ [][NextRT]_vars

---------------------------------------------------------------------------
(* The reader specification: one reader on a file that was written by the  *)
(* library and then damaged, truncated or given a different count.         *)

\* The stream that wrote the undamaged file: channel ID, uint16 on disk,
\* two particles.
BaseBound == ostream_bind(ofs_constructed, NameID, type_uint8, 1, type_uint16)

\* write_next_particle() on stream o with the caller's arrays holding vals
written_particle(o, vals) ==
    [write_impl_state(o, particle_bytes(o.m_boundChannels, vals)) EXCEPT
        !.z_data = @ \o particle_bytes(o.m_boundChannels, vals)]

BaseWriter ==
    CHOOSE w \in {written_particle(w1, << <<9>> >>) :
                     w1 \in {written_particle(opened, << <<7>> >>) :
                                opened \in {ofstream_open(b) : b \in {BaseBound}}}} : TRUE

BaseFile ==
    CHOOSE f \in {closed_file(w, h) :
                     w \in {BaseWriter},
                     h \in {written_header(b) : b \in {BaseBound}}} : TRUE

\* A file of the first format version: no chunk section.
V1File ==
    [BaseFile EXCEPT !.version = 1, !.chunks = << >>,
                     !.headerLength = sizeof_prt_header_v1]

\* f with n further bytes at the end of its header, counted by headerLength.
with_header_pad(f, n) ==
    [f EXCEPT !.headerPad = n, !.headerLength = @ + n]

\* f with n further bytes at the end of each channel entry, counted by the
\* per-channel length.
with_channel_pad(f, n) ==
    [f EXCEPT !.perChannelLength = @ + n]

\* f with chunk c put in front of the others.
with_chunk(f, c) ==
    [f EXCEPT !.chunks = <<c>> \o @, !.headerLength = @ + 8 + chunk_length(c)]

\* f with one more channel entry, a uint8 at offset 0.
with_channel(f, name) ==
    [f EXCEPT !.channelCount = @ + 1,
              !.channels = Append(@, [name |-> name, type |-> type_uint8,
                                      arity |-> 1, offset |-> 0])]

\* A metadata chunk with the given type tag put in front of the others.
with_chunk_type(f, tag) ==
    [f EXCEPT !.chunks = <<MetaChunk(<< >>, NameA, tag, <<0, 0>>)>> \o @]

CraftedFiles ==
    {BaseFile,
     [BaseFile EXCEPT !.magic_ok = FALSE],
     [BaseFile EXCEPT !.sig_ok = FALSE],
     [BaseFile EXCEPT !.particleCount = -1],
     [BaseFile EXCEPT !.particleCount = -3],
     [BaseFile EXCEPT !.reserved = 0],
     [BaseFile EXCEPT !.reserved = 5],
     [BaseFile EXCEPT !.channels[1].type = -1],
     [BaseFile EXCEPT !.channels[1].type = type_count],
     [BaseFile EXCEPT !.channels[1].arity = -1],
     [BaseFile EXCEPT !.channels[1].offset = -1],
     \* an offset past the end of the record
     [BaseFile EXCEPT !.channels[1].offset = 4],
     with_chunk_type(BaseFile, type_uint8),
     with_chunk_type(BaseFile, meta_type_string),
     with_chunk_type(BaseFile, -2),
     with_chunk_type(BaseFile, type_count),
     \* the deflate stream is complete but holds fewer particles than counted
     [BaseFile EXCEPT !.particleCount = 3],
     \* the file ends inside the deflate stream
     [BaseFile EXCEPT !.body = SubSeq(@, 1, 3)],
     [BaseFile EXCEPT !.body = SubSeq(@, 1, 4)],
     [BaseFile EXCEPT !.body = << >>],
     \* fewer particles counted than the body holds
     [BaseFile EXCEPT !.particleCount = 1],
     \* other version tags
     V1File,
     [BaseFile EXCEPT !.version = 1],
     [BaseFile EXCEPT !.version = 0],
     [BaseFile EXCEPT !.version = -1],
     [BaseFile EXCEPT !.version = 99],
     \* declared lengths beyond the known structures
     with_header_pad(V1File, 4),
     with_header_pad(BaseFile, 1),
     with_header_pad(BaseFile, 4),
     with_header_pad(BaseFile, 8),
     with_channel_pad(V1File, 4),
     with_channel_pad(BaseFile, 4),
     with_channel_pad(with_header_pad(V1File, 8), 8),
     \* names that are not valid, in a chunk and in the channel table
     with_chunk(BaseFile, MetaChunk(<< >>, NameSeven, type_uint8, <<1>>)),
     with_chunk(BaseFile, MetaChunk(NameSeven, NameA, type_uint8, <<1>>)),
     with_chunk(with_chunk(BaseFile, MetaChunk(NameID, NameA, type_uint8, <<1>>)),
                MetaChunk(<< >>, NameSeven, type_uint8, <<1>>)),
     with_channel(BaseFile, NameSeven),
     \* channel-scope chunks for channels in the table and not in it
     with_chunk(BaseFile, MetaChunk(NameID, NameA, type_uint8, <<1>>)),
     with_chunk(BaseFile, MetaChunk(NameB, NameA, type_uint8, <<1>>)),
     with_chunk(with_channel(BaseFile, NameB),
                MetaChunk(NameB, NameA, type_uint8, <<1>>)),
     with_chunk(with_chunk(BaseFile, MetaChunk(NameB, NameA, type_uint8, <<1>>)),
                MetaChunk(NameID, NameB, type_uint16, <<1, 0>>)),
     with_channel(BaseFile, NameB)}

InitRead ==
    /\ scn = "crafted"
    /\ file \in CraftedFiles
    /\ ofs = ofs_constructed
    /\ ifs = ifs_constructed
    /\ hist = hist_init
    /\ lay = lay_init
    /\ cm_dest = type_int16 /\ cm_src = type_int16 /\ cm_result = NoProbe
    /\ nv_name = << >> /\ nv_bind = NoProbe /\ nv_open = NoProbe

NextRead ==
    \/ i_open
    \/ \E c \in InBindChoices : i_bind(c)
    \/ i_read_next_particle
    \/ i_read_loop
    \/ i_close

SpecRead == InitRead /\ [][NextRead]_vars

---------------------------------------------------------------------------
(* The conversion-matrix specification: is_compatible applied to every     *)
(* pair of type tags.                                                      *)

InitCompat ==
    /\ cm_dest \in DataTypes
    /\ cm_src \in DataTypes
    /\ cm_result = NoProbe
    /\ scn = "compat"
    /\ ofs = ofs_constructed /\ file = NoFile /\ ifs = ifs_constructed
    /\ hist = hist_init
    /\ lay = lay_init
    /\ nv_name = << >> /\ nv_bind = NoProbe /\ nv_open = NoProbe

\* detail::is_compatible( cm_dest, cm_src )
cm_is_compatible ==
    /\ ~cm_result.done
    /\ cm_result' = [done |-> TRUE, value |-> is_compatible(cm_dest, cm_src)]
    /\ UNCHANGED <<cm_dest, cm_src, nvVars, scn, ofs, file, ifs, hist, lay>>

NextCompat == cm_is_compatible

SpecCompat == InitCompat /\ [][NextCompat]_vars

---------------------------------------------------------------------------
(* The name specification: the two name checks of the output path applied  *)
(* to one name.  is_valid_name is the check made by bind (through          *)
(* add_channel) and by add_metadata; is_valid_channel_name is the check    *)
(* made when open() writes the header.                                     *)

\* The characters names are built from: a letter, a digit, the underscore
\* and a character outside the pattern.
NameAlphabet == {"a", "7", "_", "-"}

\* Longest name that is enumerated character by character.
MaxShortName == 3

ShortNames == UNION {[1..n -> NameAlphabet] : n \in 0..MaxShortName}

\* head followed by the letter "a" up to length n.
Padded(head, n) == head \o [i \in 1..(n - Len(head)) |-> "a"]

LongNames ==
    {Padded(h, n) : h \in {<<"a">>, <<"_">>, <<"a", "7">>}, n \in {30, 31, 32, 33}}

NameProbes == ShortNames \cup LongNames

InitName ==
    /\ nv_name \in NameProbes
    /\ nv_bind = NoProbe
    /\ nv_open = NoProbe
    /\ scn = "name"
    /\ ofs = ofs_constructed /\ file = NoFile /\ ifs = ifs_constructed
    /\ hist = hist_init
    /\ lay = lay_init
    /\ cm_dest = type_int16 /\ cm_src = type_int16 /\ cm_result = NoProbe

\* detail::is_valid_name( nv_name )
nv_is_valid_name ==
    /\ ~nv_bind.done
    /\ nv_bind' = [done |-> TRUE, value |-> is_valid_name(nv_name)]
    /\ UNCHANGED <<nv_name, nv_open, cmVars, scn, ofs, file, ifs, hist, lay>>

\* detail::is_valid_channel_name( nv_name.c_str() )
nv_is_valid_channel_name ==
    /\ ~nv_open.done
    /\ nv_open' = [done |-> TRUE, value |-> is_valid_channel_name(nv_name)]
    /\ UNCHANGED <<nv_name, nv_bind, cmVars, scn, ofs, file, ifs, hist, lay>>

NextName == nv_is_valid_name \/ nv_is_valid_channel_name

SpecName == InitName /\ [][NextName]_vars

---------------------------------------------------------------------------
(* Properties.                                                             *)

\* The writer went through bind, open, write, close in that order: no
\* write_next_particle call was made while the stream was not open.
WrittenInOrder == hist.strayWrites = 0

\* C1 (count integrity): while the output file is open the count field of
\* the header holds -1; after close() of a stream that was opened and then
\* written N times the count field holds N.
C1_CountIntegrity ==
    /\ (file.created /\ ~ofs.closed) => file.particleCount = -1
    /\ (file.created /\ ofs.closed /\ WrittenInOrder)
          => file.particleCount = Len(hist.written)

\* C1 witness: a closed file after two records written in order.
C1_Witness ==
    /\ file.created /\ ofs.closed /\ WrittenInOrder
    /\ Len(hist.written) >= 2
    /\ file.particleCount = Len(hist.written)

\* Element k of an array of elements of the given type.
ElemOf(type, b, k) == SubSeq(b, (k - 1) * SizeOf(type) + 1, k * SizeOf(type))

\* The number an integer element stands for, as nine little-endian bytes of
\* two's complement: wide enough to tell every 64-bit signed value from
\* every 64-bit unsigned value.
Widen(type, b) ==
    b \o Fill(9 - Len(b), IF type \in SignedInts /\ b[Len(b)] >= 128 THEN 255 ELSE 0)

\* Do the caller's array written as type tw and the array read as type tr
\* hold the same values?
SameValues(tw, vw, tr, vr, arity) ==
    IF tw = tr THEN vw = vr
    ELSE /\ Len(vr) = SizeOf(tr) * arity
         /\ \A k \in 1..arity :
               Widen(tw, ElemOf(tw, vw, k)) = Widen(tr, ElemOf(tr, vr, k))

\* C2 (round trip): every value a read delivers for a bound channel is the
\* value the writer's caller supplied for that channel in the same record,
\* bit for bit when the caller types agree and as the same number across
\* the integer conversions bind admits; and no read on the open reader
\* fails before every record written was delivered.
C2_RoundTrip ==
    /\ (ifs.fin_open /\ hist.i_op = "read" /\ hist.i_ret \notin {"true", "running"})
          => Len(hist.got) = Len(hist.written)
    /\ \A k \in 1..Len(hist.got) :
           /\ k <= Len(hist.written)
           /\ Len(hist.got[k]) = Len(ifs.m_boundChannels)
           /\ \A j \in 1..Len(hist.got[k]) :
                 \E w \in 1..Len(ofs.m_boundChannels) :
                    /\ ofs.m_boundChannels[w].name = ifs.m_boundChannels[j].name
                    /\ SameValues(ofs.m_boundChannels[w].srcType, hist.written[k][w],
                                  ifs.m_boundChannels[j].destType, hist.got[k][j],
                                  ifs.m_boundChannels[j].arity)

\* C2 witness: two records read back through a widening signed conversion
\* on the way in and another on the way out.
C2_Witness ==
    /\ Len(hist.got) >= 2
    /\ \E j \in 1..Len(ifs.m_boundChannels), w \in 1..Len(ofs.m_boundChannels) :
          /\ ifs.m_boundChannels[j].name = NameA
          /\ ofs.m_boundChannels[w].name = NameA
          /\ ofs.m_boundChannels[w].srcType = type_int8
          /\ ofs.m_boundChannels[w].destType = type_int16
          /\ ifs.m_boundChannels[j].destType = type_int64
          /\ Len(hist.got[2]) >= j

\* The value bytes of the file's BoundBox chunk.
FileBoundBox ==
    LET k == CHOOSE k \in 1..Len(file.chunks) :
                file.chunks[k].tag = "Meta" /\ file.chunks[k].valueName = NameBoundBox
    IN  file.chunks[k].data

\* The Position arrays the caller supplied, one per record.
WrittenPositions ==
    LET w == CHOOSE w \in 1..Len(ofs.m_boundChannels) :
                ofs.m_boundChannels[w].name = NamePosition
    IN  [r \in 1..Len(hist.written) |-> hist.written[r][w]]

\* C3 (bounding box): after close() of a file with a float32[3] Position
\* channel and at least one record, the BoundBox value is the componentwise
\* minimum followed by the componentwise maximum of the positions written.
C3_BoundingBox ==
    (/\ file.created /\ ofs.closed /\ WrittenInOrder /\ hist.lateBinds = 0
     /\ \E w \in 1..Len(ofs.m_boundChannels) :
           ofs.m_boundChannels[w].name = NamePosition
     /\ Len(hist.written) >= 1)
    => \A k \in 1..3 :
          LET coords == {ElemOf(type_float32, WrittenPositions[r], k) :
                            r \in 1..Len(hist.written)}
              lo == ElemOf(type_float32, FileBoundBox, k)
              hi == ElemOf(type_float32, FileBoundBox, k + 3)
          IN  /\ lo \in coords /\ \A u \in coords : ~f32_less(u, lo)
              /\ hi \in coords /\ \A u \in coords : ~f32_less(hi, u)

\* C4 (empty bounding box): a reader that opened a file written with zero
\* records finds no BoundBox value, or one with a NaN component.
C4_EmptyBoundingBox ==
    (hist.i_opened = "ok" /\ Len(hist.written) = 0 /\ WrittenInOrder)
    => \/ NameBoundBox \notin DOMAIN ifs.m_fileMetadata
       \/ \E k \in 1..6 :
             f32_is_nan(ElemOf(type_float32, ifs.m_fileMetadata[NameBoundBox].data, k))

\* The width in bytes of each integer type, as the format defines it.
WidthOf(type) ==
    CASE type \in {type_int8, type_uint8} -> 1
      [] type \in {type_int16, type_uint16} -> 2
      [] type \in {type_int32, type_uint32} -> 4
      [] type \in {type_int64, type_uint64} -> 8

\* The conversions between integer types that cannot lose data.
LosslessIntegerRule(dest, src) ==
    \/ /\ (dest \in SignedInts) = (src \in SignedInts)
       /\ WidthOf(dest) >= WidthOf(src)
    \/ /\ src \in UnsignedInts /\ dest \in SignedInts
       /\ WidthOf(dest) > WidthOf(src)

\* C5 (integer conversion matrix): between the eight integer types
\* is_compatible(dest, src) is true exactly for the same signedness with
\* dest at least as wide, or unsigned to signed with dest strictly wider;
\* it is true for dest = src; and for a floating source it is true exactly
\* when the destination is floating.
C5_ConversionMatrix ==
    cm_result.done =>
       /\ (cm_src \in IntTypes /\ cm_dest \in IntTypes)
             => (cm_result.value = LosslessIntegerRule(cm_dest, cm_src))
       /\ (cm_src \in SignedInts /\ cm_dest \in UnsignedInts) => ~cm_result.value
       /\ (cm_src = cm_dest) => cm_result.value
       /\ (cm_src \in FloatTypes) => (cm_result.value = (cm_dest \in FloatTypes))

\* C5 witness: the check was applied to an unsigned source and a wider
\* signed destination, and admitted the pair.
C5_Witness ==
    /\ cm_result.done
    /\ cm_src = type_uint8 /\ cm_dest = type_int16
    /\ cm_result.value

NameLetters == UpperChars \cup LowerChars

\* The documented pattern: [A-Za-z_][A-Za-z0-9_]* and at most 31 bytes.
NameRule(name) ==
    /\ Len(name) \in 1..31
    /\ name[1] \in NameLetters \cup {"_"}
    /\ \A i \in 2..Len(name) : name[i] \in NameLetters \cup DigitChars \cup {"_"}

\* C6 (name validation): each name check of the output stream, the one made
\* by bind and add_metadata and the one made when open() writes the header,
\* accepts a name exactly when it matches the pattern and is at most 31
\* bytes long.
C6_NameValidation ==
    /\ nv_bind.done => (nv_bind.value = NameRule(nv_name))
    /\ nv_open.done => (nv_open.value = NameRule(nv_name))

\* C7 (bind after open): no bind() call made while the output file is open
\* succeeds, so none changes the layout or the bindings.
C7_BindAfterOpenRejected == hist.lateBinds = 0

\* C8 (clean end of data): on a file written in order by the library and
\* opened without error, a read_next_particle call on the open reader either
\* returns true, or returns false after exactly as many records as were
\* written; it never ends with an error.
C8_CleanEndOfData ==
    (/\ hist.i_opened = "ok" /\ ifs.fin_open
     /\ WrittenInOrder /\ hist.lateBinds = 0
     /\ hist.i_op = "read" /\ hist.i_ret # "running")
    => \/ hist.i_ret = "true" /\ Len(hist.got) <= Len(hist.written)
       \/ hist.i_ret = "false" /\ Len(hist.got) = Len(hist.written)

\* The compressed body has ended for the reader: the deflate stream has
\* finished, or the file is at its end with nothing left to inflate.
BodyEnded == ifs.z_done \/ (ifs.fin_eof /\ Len(ifs.inbuf) = 0)

\* C9 (premature end): when the body has ended while records remain, the
\* read call ends with an error; its loop does not go round without
\* progress.
C9_PrematureEndIsAnError ==
    (ifs.pc = "loop" /\ ifs.m_particleCount > 0 /\ BodyEnded) => hist.spins = 0

\* The defects of a header that must make open() fail.
Defective(f) ==
    \/ ~f.magic_ok
    \/ ~f.sig_ok
    \/ f.particleCount < 0
    \/ f.reserved # 4
    \/ \E k \in 1..Len(f.channels) :
          \/ f.channels[k].type \notin 0..(type_count - 1)
          \/ f.channels[k].arity < 0
          \/ f.channels[k].offset < 0
    \/ \E k \in 1..Len(f.chunks) :
          /\ f.chunks[k].tag = "Meta"
          /\ f.chunks[k].valueType \notin -1..(type_count - 1)

\* C10 (format errors abort open): open() on a file with a bad magic number,
\* a bad signature, a negative count, a reserved value other than 4, a
\* channel type tag outside [0, type_count), a metadata type tag outside
\* [-1, type_count) or a negative channel arity or offset fails, and
\* afterwards no read delivers a record or fails to return.
C10_FormatErrorsAbortOpen ==
    (ifs.opened /\ Defective(file))
    => /\ hist.i_opened \notin {"ok", "none"}
       /\ Len(hist.got) = 0
       /\ hist.i_ret # "true"
       /\ hist.spins = 0

\* C10 witness: a read was attempted after open() failed on a metadata type
\* tag below the range, and it ended with an error.
C10_Witness ==
    /\ Defective(file)
    /\ \E k \in 1..Len(file.chunks) : file.chunks[k].valueType < -1
    /\ hist.i_opened = "invalid_metadata_type"
    /\ hist.i_op = "read"
    /\ hist.i_ret \notin {"true", "false", "running"}

\* C11 (unsupported version): open() on a file whose version tag is neither
\* 1 nor 2 (0, a negative value, 99) fails with an error; such a file is
\* never parsed as if its version were supported.
C11_UnsupportedVersionRejected ==
    (ifs.opened /\ file.created /\ file.version \notin {1, 2})
    => hist.i_opened \notin {"ok", "none"}

\* The file f without the bytes that a larger declared header length or
\* per-channel length adds.
Unpadded(f) ==
    [f EXCEPT !.headerPad = 0, !.headerLength = @ - f.headerPad,
              !.perChannelLength = sizeof_prt_channel_header_v1]

HasPadding(f) ==
    f.headerPad > 0 \/ f.perChannelLength > sizeof_prt_channel_header_v1

\* C12 (forward compatibility): a file of a supported version whose declared
\* header length or per-channel length is larger than the known structure
\* opens, yields the layout and the metadata of the same file without the
\* extra bytes, and leaves the read position at the start of the body.
C12_ForwardCompatibility ==
    (/\ ifs.opened /\ hist.i_op = "open" /\ file.created
     /\ file.version \in {1, 2}
     /\ HasPadding(file)
     /\ read_header_error(ifs_constructed, Unpadded(file)) = "none")
    => /\ hist.i_opened = "ok"
       /\ ifs.m_layout = ifstream_open(ifs_constructed, Unpadded(file)).m_layout
       /\ ifs.m_fileMetadata
            = ifstream_open(ifs_constructed, Unpadded(file)).m_fileMetadata
       /\ read_header_end(file) = body_location(file)

\* The cases in which an input-stream bind( c.name, dest, c.arity ) with
\* caller type c.type has to be rejected.
MustRejectBind(c) ==
    \/ ~has_channel(ifs.m_layout, c.name)
    \/ /\ has_channel(ifs.m_layout, c.name)
       /\ \/ c.arity # get_channel(ifs.m_layout, c.name).arity
          \/ ~is_compatible(c.type, get_channel(ifs.m_layout, c.name).type)
    \/ \E k \in 1..Len(ifs.m_boundChannels) : ifs.m_boundChannels[k].name = c.name

\* C13 (input-stream binding errors): a bind() naming a channel the layout
\* does not have, with an arity other than the channel's, with a caller
\* type that is not compatible with the channel's type, or naming a channel
\* that is already bound is rejected with an error and records no binding.
C13_BindingErrorsRejected ==
    [][\A c \in InBindChoices :
          (i_bind(c) /\ MustRejectBind(c))
          => (hist'.i_ret # "ok" /\ ifs'.m_boundChannels = ifs.m_boundChannels)]_vars

---------------------------------------------------------------------------
(* The reuse specification: one output stream taken through MaxCycles      *)
(* cycles of bind, open, write and close on the same file.                 *)

InitReuse ==
    /\ scn = "reuse"
    /\ ofs = ofs_constructed
    /\ file = NoFile
    /\ ifs = ifs_constructed
    /\ hist = hist_init
    /\ lay = lay_init
    /\ cm_dest = type_int16 /\ cm_src = type_int16 /\ cm_result = NoProbe
    /\ nv_name = << >> /\ nv_bind = NoProbe /\ nv_open = NoProbe

NextReuse ==
    \/ \E c \in OutBindChoices : ~ofs.fout_open /\ o_bind(c)
    \/ ~ofs.fout_open /\ o_open
    \/ \E e \in ValueChoices : ofs.z_init /\ o_write_next_particle(e)
    \/ ofs.fout_open /\ o_close

SpecReuse == InitReuse /\ [][NextReuse]_vars

\* A newly constructed output stream after the first n bind() calls of binds.
RECURSIVE FreshStream(_, _)
FreshStream(binds, n) ==
    IF n = 0 THEN ofs_constructed
    ELSE ostream_bind(FreshStream(binds, n - 1), binds[n].name, binds[n].type,
                      binds[n].arity, binds[n].fileType)

\* C14: after close() a reused output stream behaves as a fresh one: an
\* open() in a later cycle has the outcome, and leaves the file, that open()
\* has on a newly constructed stream given only this cycle's bind() calls.
C14_OutputStreamReuse ==
    (hist.closes >= 1 /\ hist.o_op = "open")
    => LET fresh == FreshStream(hist.cycleBinds, Len(hist.cycleBinds))
       IN  /\ hist.o_ret = IF write_header_error(fresh) = "none"
                           THEN "ok" ELSE write_header_error(fresh)
           /\ file = written_header(fresh)

---------------------------------------------------------------------------
(* The fault specification: one output stream whose sink may stop taking   *)
(* bytes while the stream is open, closed by close() or by its destructor. *)

InitFault ==
    /\ scn = "fault"
    /\ ofs = ofs_constructed
    /\ file = NoFile
    /\ ifs = ifs_constructed
    /\ hist = hist_init
    /\ lay = lay_init
    /\ cm_dest = type_int16 /\ cm_src = type_int16 /\ cm_result = NoProbe
    /\ nv_name = << >> /\ nv_bind = NoProbe /\ nv_open = NoProbe

NextFault ==
    \/ \E c \in OutBindChoices : ~ofs.fout_open /\ o_bind(c)
    \/ ~ofs.fout_open /\ o_open
    \/ \E e \in ValueChoices : ofs.z_init /\ o_write_next_particle(e)
    \/ sink_fails
    \/ o_close
    \/ o_destroy

SpecFault == InitFault /\ [][NextFault]_vars

\* C15: whenever close() or the destructor has run, whether it returned or
\* threw, the compression buffer is released (m_buffer is NULL) and the
\* deflate filter is ended.
C15_GuaranteedRelease ==
    hist.o_op \in {"close", "destroy"} => (~ofs.m_buffer /\ ~ofs.z_init)

\* The names a header entry embeds break the documented pattern.
InvalidChunkName(c) ==
    /\ c.tag = "Meta"
    /\ \/ (Len(c.channelName) > 0 /\ ~NameRule(c.channelName))
       \/ ~NameRule(c.valueName)

RECURSIVE ValidChunks(_)
ValidChunks(cs) ==
    IF Len(cs) = 0 THEN << >>
    ELSE (IF InvalidChunkName(Head(cs)) THEN << >> ELSE <<Head(cs)>>)
         \o ValidChunks(Tail(cs))

RECURSIVE ValidChannels(_)
ValidChannels(chs) ==
    IF Len(chs) = 0 THEN << >>
    ELSE (IF NameRule(Head(chs).name) THEN <<Head(chs)>> ELSE << >>)
         \o ValidChannels(Tail(chs))

\* The file without the entries whose names are invalid.
WithoutInvalidNames(f) ==
    [f EXCEPT !.chunks = ValidChunks(@), !.channels = ValidChannels(@)]

\* C16 (recoverable name anomalies): open() on a file whose only defect is
\* metadata chunks or channel-table entries with invalid names succeeds and
\* loads the layout, the file metadata and the channel metadata of the same
\* file without those entries.
C16_NameAnomaliesSkipped ==
    (/\ ifs.opened /\ hist.i_op = "open" /\ file.created
     /\ WithoutInvalidNames(file) # file
     /\ read_header_error(ifs_constructed, WithoutInvalidNames(file)) = "none")
    => /\ hist.i_opened = "ok"
       /\ ifs.m_layout = ifstream_open(ifs_constructed, WithoutInvalidNames(file)).m_layout
       /\ ifs.m_fileMetadata =
             ifstream_open(ifs_constructed, WithoutInvalidNames(file)).m_fileMetadata
       /\ ifs.m_channelMetadata =
             ifstream_open(ifs_constructed, WithoutInvalidNames(file)).m_channelMetadata

---------------------------------------------------------------------------
(* The input stream of the metadata-table revision: prt_ifstream whose     *)
(* read_header reads a counted table of named values into m_metadata and   *)
(* checks the BoundBox entry, and get_boundbox on top of it.               *)

\* sizeof( prt_channel_header_v2 )
sizeof_prt_channel_header_v2 == 48

\* prt_ifstream::prt_ifstream() of this revision
table_ifs_constructed ==
    [m_layout |-> EmptyLayout, m_metadata |-> EmptyMap, m_particleCount |-> 0,
     m_buffer |-> FALSE, z_init |-> FALSE, fin_open |-> FALSE, opened |-> FALSE]

\* read_any( val, m_fin, type, arity ): a string for type -1 (cut at its
\* first NUL), otherwise a vector of arity elements of the type.
read_any(e) ==
    IF e.type = meta_type_string
    THEN [type |-> meta_type_string,
          values |-> LET nul == {k \in 1..Len(e.data) : e.data[k] = 0}
                     IN  IF nul = {} THEN e.data
                         ELSE SubSeq(e.data, 1,
                                     (CHOOSE k \in nul : \A j \in nul : k <= j) - 1)]
    ELSE [type |-> e.type,
          values |-> [k \in 1..e.arity |->
                         SubSeq(e.data, (k - 1) * SizeOf(e.type) + 1,
                                k * SizeOf(e.type))]]

\* The metadata loop: which exception entry e raises, "none" when it is read.
table_entry_error(e) ==
    IF e.type < -1 \/ e.type >= type_count THEN "invalid_metadata_type"
    ELSE IF e.arity < 0 THEN "invalid_metadata_arity"
    ELSE "none"

\* The metadata loop over entries: m_metadata reached and the exception that
\* stopped it.
RECURSIVE read_table(_, _)
read_table(meta, entries) ==
    IF Len(entries) = 0 THEN [meta |-> meta, error |-> "none"]
    ELSE IF table_entry_error(Head(entries)) # "none"
    THEN [meta |-> meta, error |-> table_entry_error(Head(entries))]
    ELSE read_table((Head(entries).name :> read_any(Head(entries))) @@ meta,
                    Tail(entries))

\* it->second.get< std::vector<float> >() on the BoundBox entry: any::get
\* throws bad_cast when the stored type is not vector<float>.
boundbox_error(meta) ==
    IF NameBoundBox \in DOMAIN meta /\ meta[NameBoundBox].type # type_float32
    THEN "bad_cast" ELSE "none"

\* The BoundBox check: the entry is erased when it does not hold 6 values or
\* one of them differs from itself (is a NaN).
boundbox_checked(meta) ==
    IF /\ NameBoundBox \in DOMAIN meta
       /\ \/ Len(meta[NameBoundBox].values) # 6
          \/ \E k \in 1..Len(meta[NameBoundBox].values) :
                f32_is_nan(meta[NameBoundBox].values[k])
    THEN [n \in DOMAIN meta \ {NameBoundBox} |-> meta[n]]
    ELSE meta

\* The channel loop of this revision: which exception entry ch raises on top
\* of layout, "none" when it is added.
table_channel_error(layout, ch) ==
    IF ch.type < 0 \/ ch.type >= type_count THEN "invalid_channel_type"
    ELSE IF ch.arity < 0 THEN "invalid_channel_arity"
    ELSE IF ch.offset < 0 THEN "invalid_channel_offset"
    ELSE IF ch.xformType < 0 \/ ch.xformType >= xform_invalid
    THEN "invalid_channel_transform"
    ELSE add_channel_error(layout, ch.name, ch.type, ch.arity, ch.xformType)

RECURSIVE read_table_channels(_, _)
read_table_channels(layout, entries) ==
    IF Len(entries) = 0 THEN [layout |-> layout, error |-> "none"]
    ELSE LET err == table_channel_error(layout, Head(entries))
         IN  IF err # "none" THEN [layout |-> layout, error |-> err]
             ELSE read_table_channels(
                    add_channel(layout, Head(entries).name, Head(entries).type,
                                Head(entries).arity, Head(entries).offset,
                                Head(entries).xformType),
                    Tail(entries))

\* read_header() of this revision: the exception it throws on file f, "none"
\* when it returns.
table_read_header_error(i, f) ==
    IF ~f.magic_ok THEN "no_magic_number"
    ELSE IF ~f.sig_ok THEN "no_signature"
    ELSE IF f.particleCount < 0 THEN "negative_count"
    ELSE IF f.version > 1 /\ read_table(i.m_metadata, f.metadata).error # "none"
    THEN read_table(i.m_metadata, f.metadata).error
    ELSE IF f.version > 1
            /\ boundbox_error(read_table(i.m_metadata, f.metadata).meta) # "none"
    THEN boundbox_error(read_table(i.m_metadata, f.metadata).meta)
    ELSE IF f.reserved # 4 THEN "reserved_not_4"
    ELSE IF f.perChannelLength < (IF f.version > 1 THEN sizeof_prt_channel_header_v2
                                  ELSE sizeof_prt_channel_header_v1)
    THEN "invalid_per_channel_length"
    ELSE read_table_channels(i.m_layout, f.channels).error

\* open() of this revision: the stream after m_fin.open succeeded, for a
\* header that throws or is accepted followed by init_zlib.
table_ifstream_open(i, f) ==
    LET err == table_read_header_error(i, f)
        counted == err \notin {"no_magic_number", "no_signature"}
        inMeta == counted /\ err # "negative_count" /\ f.version > 1
        read == read_table(i.m_metadata, f.metadata)
        inTable == counted /\ err \notin {"negative_count", "invalid_metadata_type",
                                          "invalid_metadata_arity", "bad_cast",
                                          "reserved_not_4",
                                          "invalid_per_channel_length"}
    IN  [i EXCEPT
           !.fin_open = TRUE, !.opened = TRUE,
           !.m_particleCount = IF counted THEN f.particleCount ELSE @,
           !.m_metadata = IF ~inMeta THEN @
                          ELSE IF read.error # "none" \/ boundbox_error(read.meta) # "none"
                          THEN read.meta
                          ELSE boundbox_checked(read.meta),
           !.m_layout = IF inTable THEN read_table_channels(@, f.channels).layout ELSE @,
           !.z_init = (err = "none"), !.m_buffer = (err = "none")]

\* prt_istream::get_metadata_ptr<float32_t>( name ) is not NULL
has_float32_metadata(i, name) ==
    name \in DOMAIN i.m_metadata /\ i.m_metadata[name].type = type_float32

\* get_boundbox( stream, outMin, outMax )
get_boundbox(i) ==
    has_float32_metadata(i, NameBoundBox) /\ Len(i.m_metadata[NameBoundBox].values) = 6

\* prt_ifstream::open( file ) of this revision
t_open ==
    /\ ~ifs.opened
    /\ ifs' = table_ifstream_open(ifs, file)
    /\ hist' = [hist EXCEPT
                  !.i_op = "open",
                  !.i_ret = IF table_read_header_error(ifs, file) = "none"
                            THEN "ok" ELSE table_read_header_error(ifs, file),
                  !.i_opened = IF table_read_header_error(ifs, file) = "none"
                               THEN "ok" ELSE table_read_header_error(ifs, file)]
    /\ UNCHANGED <<ofs, file, scn, cmVars, nvVars, lay>>

\* get_boundbox( stream, outMin, outMax ) called on the stream
t_get_boundbox ==
    /\ hist' = [hist EXCEPT !.i_op = "get_boundbox",
                            !.i_ret = IF get_boundbox(ifs) THEN "true" ELSE "false"]
    /\ UNCHANGED <<ofs, file, ifs, scn, cmVars, nvVars, lay>>

---------------------------------------------------------------------------
(* The bounding-box specification: the reader of the metadata-table        *)
(* revision on files whose BoundBox entry takes every type and arity drawn *)
(* and NaN components.                                                     *)

NameAuthor == <<"A", "u", "t", "h", "o", "r">>

\* float32 1.0, a quiet NaN and a negative NaN
F32One == <<0, 0, 128, 63>>
F32NaN == <<0, 0, 192, 127>>
F32NegNaN == <<1, 0, 128, 255>>

\* The arities and types a BoundBox entry is drawn with.
BoxArities == {1, 3, 6, 7}
BoxTypes == {type_float32, type_float64, type_float16, type_int32, type_uint8,
             meta_type_string}

\* A table entry of the given type and arity; component nanAt of a float32
\* entry is a NaN, every component when nanAt is 0 - 1, none when it is 0.
BoxEntry(type, arity, nanAt) ==
    [name |-> NameBoundBox, type |-> type, arity |-> arity,
     data |-> IF type = meta_type_string THEN Fill(arity - 1, 65) \o <<0>>
              ELSE Flatten([k \in 1..arity |->
                      IF type # type_float32 THEN Fill(SizeOf(type), 1)
                      ELSE IF nanAt = k THEN F32NaN
                      ELSE IF nanAt = 0 - 1 THEN F32NegNaN
                      ELSE F32One])]

BoxEntries ==
    {BoxEntry(type_float32, a, n) : a \in BoxArities, n \in (0 - 1)..6}
    \cup {BoxEntry(t, a, 0) : t \in BoxTypes, a \in BoxArities}

AuthorEntry ==
    [name |-> NameAuthor, type |-> meta_type_string, arity |-> 3, data |-> <<65, 66, 0>>]

\* A file of the metadata-table revision with one channel and no particles.
TableFile(entries) ==
    [created |-> TRUE, magic_ok |-> TRUE, sig_ok |-> TRUE, version |-> 2,
     particleCount |-> 0, metadata |-> entries, reserved |-> 4,
     perChannelLength |-> sizeof_prt_channel_header_v2,
     channels |-> << [name |-> NameID, type |-> type_uint16, arity |-> 1,
                      offset |-> 0, xformType |-> xform_unspecified] >>]

BoxFiles ==
    {TableFile(<< >>), TableFile(<<AuthorEntry>>)}
    \cup {TableFile(<<e>>) : e \in BoxEntries}
    \cup {TableFile(<<AuthorEntry, e>>) : e \in BoxEntries}

InitBox ==
    /\ scn = "box"
    /\ file \in BoxFiles
    /\ ofs = ofs_constructed
    /\ ifs = table_ifs_constructed
    /\ hist = hist_init
    /\ lay = lay_init
    /\ cm_dest = type_int16 /\ cm_src = type_int16 /\ cm_result = NoProbe
    /\ nv_name = << >> /\ nv_bind = NoProbe /\ nv_open = NoProbe

NextBox ==
    \/ t_open
    \/ t_get_boundbox

SpecBox == InitBox /\ [][NextBox]_vars

\* The BoundBox entry of the file is invalid: it has an arity other than 6,
\* a type other than float32 or a NaN component.
InvalidBoundBox(f) ==
    \E k \in 1..Len(f.metadata) :
       /\ f.metadata[k].name = NameBoundBox
       /\ \/ f.metadata[k].arity # 6
          \/ f.metadata[k].type # type_float32
          \/ \E j \in 1..6 : f32_is_nan(SubSeq(f.metadata[k].data, 4 * j - 3, 4 * j))

\* C17 (invalid bounding box on read): open() on a file whose BoundBox entry
\* is invalid succeeds, the entry is not in the metadata of the stream and
\* get_boundbox returns false.
C17_InvalidBoundBoxAbsent ==
    (ifs.opened /\ InvalidBoundBox(file))
    => /\ hist.i_opened = "ok"
       /\ NameBoundBox \notin DOMAIN ifs.m_metadata
       /\ (hist.i_op = "get_boundbox" => hist.i_ret = "false")

---------------------------------------------------------------------------
(* The metadata specification: a caller that hands file and channel        *)
(* metadata to an output stream, binds, opens, writes and closes, and then *)
(* opens the file for reading; or a caller that opens a file holding       *)
(* channel metadata which some other program wrote.                        *)

NameUnits == <<"U", "n", "i", "t", "s">>

MetaNames == {NameAuthor, NameBoundBox, NameUnits, NameSeven}

\* An int32, a string, a float64[6] and a float32[6].
MetaValues ==
    {[type |-> type_int32, data |-> <<1, 0, 0, 0>>],
     [type |-> meta_type_string, data |-> <<72, 105, 0>>],
     [type |-> type_float64, data |-> Fill(48, 0)],
     [type |-> type_float32, data |-> Flatten([k \in 1..6 |-> F32One])]}

MetaChannels == {NamePosition, NameID, NameB}

ChannelMetaNames == {NameUnits, NameSeven}

ChannelMetaValues == {[type |-> type_int32, data |-> <<1, 0, 0, 0>>]}

\* Files whose chunk section holds channel metadata, for channels of the
\* channel table and for others.
MetaFiles ==
    {with_chunk(BaseFile, MetaChunk(NameID, NameA, type_uint8, <<1>>)),
     with_chunk(BaseFile, MetaChunk(NameB, NameA, type_uint8, <<1>>)),
     with_chunk(with_channel(BaseFile, NameB),
                MetaChunk(NameB, NameA, type_uint8, <<1>>)),
     with_chunk(with_chunk(BaseFile, MetaChunk(NameB, NameA, type_uint8, <<1>>)),
                MetaChunk(NameID, NameB, type_uint16, <<1, 0>>)),
     with_channel(BaseFile, NameB)}

InitMeta ==
    /\ \/ scn = "meta" /\ file = NoFile
       \/ scn = "metafile" /\ file \in MetaFiles
    /\ ofs = ofs_constructed
    /\ ifs = ifs_constructed
    /\ hist = hist_init
    /\ lay = lay_init
    /\ cm_dest = type_int16 /\ cm_src = type_int16 /\ cm_result = NoProbe
    /\ nv_name = << >> /\ nv_bind = NoProbe /\ nv_open = NoProbe

NextMeta ==
    \/ \E n \in MetaNames, v \in MetaValues :
          scn = "meta" /\ ~file.created /\ o_add_file_metadata(n, v)
    \/ \E c \in MetaChannels, n \in ChannelMetaNames, v \in ChannelMetaValues :
          scn = "meta" /\ ~file.created /\ o_add_channel_metadata(c, n, v)
    \/ \E c \in OutBindChoices : scn = "meta" /\ ~file.created /\ o_bind(c)
    \/ scn = "meta" /\ ~file.created /\ o_open
    \/ \E e \in ValueChoices : ofs.fout_open /\ o_write_next_particle(e)
    \/ ofs.fout_open /\ o_close
    \/ (scn = "metafile" \/ ofs.closed) /\ file.created /\ i_open
    \/ ifs.opened /\ i_close

SpecMeta == InitMeta /\ [][NextMeta]_vars

\* The chunks of a chunk section that are file-scope entries named BoundBox.
boundbox_chunks(chunks) ==
    {k \in 1..Len(chunks) :
        /\ chunks[k].tag = "Meta"
        /\ chunks[k].channelName = << >>
        /\ chunks[k].valueName = NameBoundBox}

\* C18: when open() has returned, the file holds exactly one file-scope
\* BoundBox entry, a float32 array of 6 (24 value bytes) whatever entry of
\* that name the caller supplied, and m_boundBoxLocation is the offset of
\* the first of these bytes; when close() has returned, the chunk section
\* is the one open() wrote except that those 24 bytes hold m_bounds.
C18_WriterManagedBoundBox ==
    /\ (hist.o_op = "open" /\ hist.o_ret = "ok")
       => \E k \in 1..Len(file.chunks) :
             /\ boundbox_chunks(file.chunks) = {k}
             /\ file.chunks[k].valueType = type_float32
             /\ Len(file.chunks[k].data) = 6 * SizeOf(type_float32)
             /\ ofs.m_boundBoxLocation = value_location(file.chunks, k)
    /\ (hist.o_op = "close" /\ hist.o_ret = "ok" /\ file.created)
       => /\ Len(file.chunks) = Len(hist.o_chunks)
          /\ \A k \in 1..Len(file.chunks) :
                IF k \in boundbox_chunks(hist.o_chunks)
                THEN file.chunks[k] =
                        [hist.o_chunks[k] EXCEPT !.data = Flatten(ofs.m_bounds)]
                ELSE file.chunks[k] = hist.o_chunks[k]

\* A stream given an Author entry and a BoundBox entry of its own, with a
\* float32[3] Position channel, was opened, took particles and was closed.
C18_Witness ==
    /\ hist.o_op = "close" /\ hist.o_ret = "ok" /\ file.created
    /\ hist.callerBox
    /\ NameAuthor \in DOMAIN ofs.m_fileMetadata
    /\ ofs.m_posChannelOffset >= 0
    /\ Len(hist.written) = 2

\* The names get_channel_metadata and has_channel are asked about.
ProbeChannels == {NamePosition, NameID, NameA, NameB, NameSeven}

\* The channels a chunk section holds channel metadata for.
chunk_channels(chunks) ==
    {chunks[k].channelName : k \in {j \in 1..Len(chunks) :
                                       /\ chunks[j].tag = "Meta"
                                       /\ chunks[j].channelName # << >>}}

\* C19: while an input stream that was opened successfully is open, the
\* channels with a channel metadata map are exactly the channels of the
\* layout, and get_channel_metadata(name) throws exactly for the names
\* has_channel(name) is false for; and the chunk section open() of an output
\* stream wrote holds channel metadata for channels of its layout only.
C19_ChannelMetadataFollowsTable ==
    /\ (hist.i_opened = "ok" /\ ifs.fin_open)
       => /\ DOMAIN ifs.m_channelMetadata = DOMAIN ifs.m_layout.m_channelMap
          /\ \A n \in ProbeChannels :
                get_channel_metadata_throws(ifs, n) <=> ~has_channel(ifs.m_layout, n)
    /\ (hist.o_op = "open" /\ hist.o_ret = "ok")
       => \A n \in chunk_channels(file.chunks) : has_channel(ofs.m_layout, n)

\* An input stream is open on a file that holds channel metadata for a
\* channel its channel table does not have, and for one it has.
C19_Witness ==
    /\ hist.i_opened = "ok" /\ ifs.fin_open
    /\ \E n \in chunk_channels(file.chunks) : n \notin {file.channels[k].name : k \in 1..Len(file.channels)}
    /\ \E n \in chunk_channels(file.chunks) : n \in {file.channels[k].name : k \in 1..Len(file.channels)}

---------------------------------------------------------------------------
(* The layout round trip of a reused output stream: a caller that takes    *)
(* one output stream through bind/open/close cycles and then opens the     *)
(* file of the last cycle for reading.                                     *)

InitRelayout ==
    /\ scn = "relayout"
    /\ ofs = ofs_constructed
    /\ file = NoFile
    /\ ifs = ifs_constructed
    /\ hist = hist_init
    /\ lay = lay_init
    /\ cm_dest = type_int16 /\ cm_src = type_int16 /\ cm_result = NoProbe
    /\ nv_name = << >> /\ nv_bind = NoProbe /\ nv_open = NoProbe

NextRelayout ==
    \/ \E c \in OutBindChoices : ~ifs.opened /\ ~ofs.fout_open /\ o_bind(c)
    \/ ~ifs.opened /\ ~ofs.fout_open /\ o_open
    \/ ~ifs.opened /\ ofs.fout_open /\ o_close
    \/ hist.o_op = "close" /\ file.created /\ i_open
    \/ ifs.opened /\ i_close

SpecRelayout == InitRelayout /\ [][NextRelayout]_vars

\* The reader's layout against the writer's: hist.o_layout is the layout of
\* the writer when open() wrote the file and hist.o_binds the channels it
\* was given for that file, in the order of the bind() calls.
SameLayout ==
    /\ num_channels(ifs.m_layout) = num_channels(hist.o_layout)
    /\ num_channels(ifs.m_layout) = Len(hist.o_binds)
    /\ \A i \in 1..Len(hist.o_binds) :
          /\ i <= Len(ifs.m_layout.m_channels)
          /\ ifs.m_layout.m_channels[i] = hist.o_binds[i].name
          /\ has_channel(ifs.m_layout, hist.o_binds[i].name)
          /\ get_channel(ifs.m_layout, hist.o_binds[i].name).type
             = get_channel(hist.o_layout, hist.o_binds[i].name).type
          /\ get_channel(ifs.m_layout, hist.o_binds[i].name).arity
             = get_channel(hist.o_layout, hist.o_binds[i].name).arity
          /\ get_channel(ifs.m_layout, hist.o_binds[i].name).offset
             = get_channel(hist.o_layout, hist.o_binds[i].name).offset
    /\ layout_size(ifs.m_layout) = layout_size(hist.o_layout)

\* C20: an input stream opened on the file an output stream produced (its
\* open() and close() returned) has
\* the writer's layout: as many channels, at every index the channel the
\* writer was given at that index with its type, arity and offset, and the
\* same record size.
C20_LayoutRoundTrip ==
    (/\ hist.o_opened = "ok" /\ hist.o_op = "close" /\ hist.o_ret = "ok"
     /\ hist.i_opened = "ok" /\ ifs.fin_open)
    => SameLayout

---------------------------------------------------------------------------
(* Statements about the frame of a rejected bind(), the transform rule,    *)
(* the size of a layout and the conversions is_compatible allows.          *)

\* The exceptions bind() and the add_channel call inside it throw.
BindRejections ==
    {"already_bound", "incompatible_types", "invalid_name", "duplicate",
     "incompatible_transform"}

\* C21: a bind() on the output stream that is rejected (name not valid,
\* name already in the layout, on-disk type not compatible with the caller's
\* type, transform not compatible) leaves the layout and the list of bound
\* channels as they were, and no bound channel ever holds a conversion bind()
\* rejects, so no write_next_particle performs one.
C21_RejectedBindLeavesStream ==
    [][/\ (hist'.o_op = "bind" /\ hist'.o_ret \in BindRejections)
          => /\ ofs'.m_layout = ofs.m_layout
             /\ ofs'.m_boundChannels = ofs.m_boundChannels
       /\ \A k \in 1..Len(ofs'.m_boundChannels) :
             is_compatible(ofs'.m_boundChannels[k].destType,
                           ofs'.m_boundChannels[k].srcType)]_vars

\* A stream that holds a channel has just rejected a bind() for its types,
\* and particles written since hold the bound channel only.
C21_Witness ==
    /\ hist.o_op = "bind" /\ hist.o_ret = "incompatible_types"
    /\ Len(ofs.m_boundChannels) = 1
    /\ num_channels(ofs.m_layout) = 1

---------------------------------------------------------------------------
(* A prt_layout driven directly: add_channel and clear.                    *)

\* prt_layout::add_channel( name, type, arity, offset, xformType ), the
\* offset being the size of the layout as in prt_ostream::bind
l_add_channel(name, type, arity, xformType) ==
    /\ LET err == add_channel_error(lay.layout, name, type, arity, xformType)
       IN  lay' = [lay EXCEPT
                     !.layout = IF err = "none"
                                THEN add_channel(@, name, type, arity,
                                                 layout_size(@), xformType)
                                ELSE @,
                     !.added = IF err = "none" THEN Append(@, name) ELSE @,
                     !.op = "add_channel",
                     !.ret = IF err = "none" THEN "ok" ELSE err,
                     !.name = name, !.type = type, !.arity = arity,
                     !.xformType = xformType]
    /\ UNCHANGED <<scn, ofs, file, ifs, hist, cmVars, nvVars>>

\* prt_layout::clear()
l_clear ==
    /\ lay' = [lay EXCEPT !.layout = layout_clear(@), !.added = << >>,
                          !.op = "clear", !.ret = "ok"]
    /\ UNCHANGED <<scn, ofs, file, ifs, hist, cmVars, nvVars>>

\* The transform specification: one add_channel call on an empty layout,
\* for every type, the arities 1 to 4 and every transform tag.
XformNames == {NamePosition, NameID}
XformArities == 1..4
XformTags == {xform_unspecified, xform_point, xform_vector, xform_normal,
              xform_orientation, xform_rotation, xform_scalar}

InitXform ==
    /\ scn = "xform"
    /\ ofs = ofs_constructed /\ file = NoFile /\ ifs = ifs_constructed
    /\ hist = hist_init
    /\ lay = lay_init
    /\ cm_dest = type_int16 /\ cm_src = type_int16 /\ cm_result = NoProbe
    /\ nv_name = << >> /\ nv_bind = NoProbe /\ nv_open = NoProbe

NextXform ==
    \E n \in XformNames, t \in DataTypes, a \in XformArities, x \in XformTags :
        lay.op = "none" /\ l_add_channel(n, t, a, x)

SpecXform == InitXform /\ [][NextXform]_vars

\* The tag a channel ends up with.
EffectiveTag(name, xformType) ==
    IF xformType = xform_unspecified /\ name = NamePosition THEN xform_point
    ELSE xformType

\* The transform rule as stated: point, vector and normal take a float type
\* and arity 3, orientation and rotation a float type and arity 4, scalar
\* arity 1, unspecified anything.
TransformRule(tag, type, arity) ==
    CASE tag \in {xform_point, xform_vector, xform_normal} ->
             type \in FloatTypes /\ arity = 3
      [] tag \in {xform_orientation, xform_rotation} ->
             type \in FloatTypes /\ arity = 4
      [] tag = xform_scalar -> arity = 1
      [] OTHER -> TRUE

\* C22: add_channel rejects a channel for its transform exactly when the
\* effective tag does not satisfy the transform rule.
C22_TransformAcceptance ==
    lay.op = "add_channel"
    => ((lay.ret # "incompatible_transform")
        <=> TransformRule(EffectiveTag(lay.name, lay.xformType), lay.type, lay.arity))

\* The sum of size(type) * arity over the channels names of a layout.
RECURSIVE channels_size(_, _)
channels_size(layout, names) ==
    IF names = {} THEN 0
    ELSE LET n == CHOOSE x \in names : TRUE
         IN  SizeOf(get_channel(layout, n).type) * get_channel(layout, n).arity
             + channels_size(layout, names \ {n})

\* size() is the sum of the channel sizes and every channel lies inside the
\* first size() bytes.
LayoutSized(layout) ==
    /\ layout_size(layout) = channels_size(layout, DOMAIN layout.m_channelMap)
    /\ \A n \in DOMAIN layout.m_channelMap :
          get_channel(layout, n).offset
          + SizeOf(get_channel(layout, n).type) * get_channel(layout, n).arity
          <= layout_size(layout)

\* C23: the layout of the output stream, and the layout of an input stream
\* that is open on a file open() accepted, has size() equal to the sum of
\* its channels' sizes and holds every channel inside the first size() bytes.
C23_LayoutSizeInvariant ==
    /\ LayoutSized(ofs.m_layout)
    /\ (hist.i_opened = "ok" /\ ifs.fin_open) => LayoutSized(ifs.m_layout)

\* The bits of precision of each floating type (the hidden bit included).
MantissaBits(type) ==
    CASE type = type_float16 -> 11
      [] type = type_float32 -> 24
      [] type = type_float64 -> 53

\* The bits the magnitude of an integer type's largest value takes.
ValueBits(type) ==
    IF type \in SignedInts THEN 8 * WidthOf(type) - 1 ELSE 8 * WidthOf(type)

\* Every value of src is a value of dest.
Representable(dest, src) ==
    IF src \in IntTypes /\ dest \in IntTypes THEN LosslessIntegerRule(dest, src)
    ELSE IF src \in IntTypes THEN ValueBits(src) <= MantissaBits(dest)
    ELSE FALSE

\* C24: a pair is_compatible admits, other than a floating source with a
\* floating destination, has a destination type that holds every value of
\* the source type.
C24_CompatibleIsLossless ==
    (cm_result.done /\ cm_result.value
     /\ ~(cm_src \in FloatTypes /\ cm_dest \in FloatTypes))
    => Representable(cm_dest, cm_src)

\* The bytes of the chunk section: the chunks one after the other.
RECURSIVE chunk_section_bytes(_)
chunk_section_bytes(chunks) ==
    IF Len(chunks) = 0 THEN << >>
    ELSE chunk_bytes(Head(chunks)) \o chunk_section_bytes(Tail(chunks))

\* C25: when open() has returned, the headerLength it wrote is the offset
\* just after the stop chunk, 56 bytes of fixed header plus the bytes of
\* every chunk written, and the length each metadata chunk declares is the
\* number of bytes written after its 8-byte chunk header: both names with
\* their terminators, the 4-byte type tag and the value bytes.
C25_HeaderByteAccounting ==
    (hist.o_op = "open" /\ hist.o_ret = "ok")
    => /\ file.headerLength = 56 + Len(chunk_section_bytes(file.chunks))
       /\ file.chunks[Len(file.chunks)].tag = "Stop"
       /\ \A k \in 1..Len(file.chunks) :
             /\ int32_value(SubSeq(chunk_bytes(file.chunks[k]), 5, 8))
                = Len(chunk_bytes(file.chunks[k])) - 8
             /\ file.chunks[k].tag = "Meta"
                => Len(chunk_bytes(file.chunks[k])) - 8
                   = Len(file.chunks[k].channelName) + 1
                     + Len(file.chunks[k].valueName) + 1 + 4
                     + Len(file.chunks[k].data)

\* open() has written a header that holds a string entry, a channel entry
\* and the BoundBox entry.
C25_Witness ==
    /\ hist.o_op = "open" /\ hist.o_ret = "ok"
    /\ \E k \in 1..Len(file.chunks) : file.chunks[k].valueType = meta_type_string
    /\ \E k \in 1..Len(file.chunks) : file.chunks[k].channelName # << >>
    /\ Len(file.chunks) = 4

\* C26 (count matches body under any call sequence): the particle count
\* patched into the header at close() equals the number of records that
\* were fed to the compression filter for that file, whatever calls came
\* before, write_next_particle calls that failed included.
C26_CountMatchesBody ==
    (file.created /\ ofs.closed /\ hist.o_op = "close" /\ hist.o_ret = "ok")
       => file.particleCount = Len(hist.written)

\* prt_layout::get_channel_name( index ), index counted from 0
get_channel_name(layout, index) == layout.m_channels[index + 1]

\* The layout specification: add_channel and clear calls in any order on
\* one prt_layout, add_channel with the offset prt_ostream::bind gives it.
MaxLayoutNames == 4
LayoutNames == {NameA, NameB, NameID}
LayoutTypes == {type_int32, type_float32}
LayoutArities == 1..2

InitLayout ==
    /\ scn = "layout"
    /\ ofs = ofs_constructed /\ file = NoFile /\ ifs = ifs_constructed
    /\ hist = hist_init
    /\ lay = lay_init
    /\ cm_dest = type_int16 /\ cm_src = type_int16 /\ cm_result = NoProbe
    /\ nv_name = << >> /\ nv_bind = NoProbe /\ nv_open = NoProbe

NextLayout ==
    \/ \E n \in LayoutNames, t \in LayoutTypes, a \in LayoutArities :
          /\ Len(lay.layout.m_channels) < MaxLayoutNames
          /\ l_add_channel(n, t, a, xform_unspecified)
    \/ l_clear

SpecLayout == InitLayout /\ [][NextLayout]_vars

\* C27 (layout index consistency): after any sequence of add_channel and
\* clear calls, num_channels() is the number of names held by the index that
\* get_channel_name reads, and for every i below num_channels()
\* get_channel_name(i) is the i-th channel added since the last clear(), a
\* name that has_channel finds and get_channel returns.
C27_LayoutIndexConsistency ==
    /\ num_channels(lay.layout) = Len(lay.layout.m_channels)
    /\ num_channels(lay.layout) = Len(lay.added)
    /\ \A i \in 0..(num_channels(lay.layout) - 1) :
          /\ get_channel_name(lay.layout, i) = lay.added[i + 1]
          /\ has_channel(lay.layout, get_channel_name(lay.layout, i))

\* prt_ifstream::open( file ) on a stream that was opened and closed before,
\* file f being the one the caller names this time.  m_fin.open clears the
\* state flags of the file stream when it succeeds.
i_reopen(f) ==
    /\ ifs.pc = "idle"
    /\ ifs.opened /\ ~ifs.fin_open
    /\ hist.reopens < MaxReopens
    /\ file' = f
    /\ LET i0 == [ifs EXCEPT !.fin_eof = FALSE, !.fin_fail = FALSE, !.fin_pos = 0]
           err == read_header_error(i0, f)
       IN  /\ ifs' = ifstream_open(i0, f)
           /\ hist' = [hist EXCEPT
                         !.i_op = "open",
                         !.i_ret = IF err = "none" THEN "ok" ELSE err,
                         !.i_opened = IF err = "none" THEN "ok" ELSE err,
                         !.reopens = @ + 1]
    /\ UNCHANGED <<ofs, scn, cmVars, nvVars, lay>>

\* The reader reuse specification: one input stream that reads a file, is
\* closed and opens another file.
RereadFiles ==
    {BaseFile,
     V1File,
     [BaseFile EXCEPT !.channels[1].name = NameB],
     with_chunk(BaseFile, MetaChunk(<< >>, NameAuthor, type_uint8, <<1>>)),
     with_chunk(BaseFile, MetaChunk(NameID, NameUnits, type_uint8, <<1>>))}

InitReread ==
    /\ scn = "reread"
    /\ file \in RereadFiles
    /\ ofs = ofs_constructed
    /\ ifs = ifs_constructed
    /\ hist = hist_init
    /\ lay = lay_init
    /\ cm_dest = type_int16 /\ cm_src = type_int16 /\ cm_result = NoProbe
    /\ nv_name = << >> /\ nv_bind = NoProbe /\ nv_open = NoProbe

NextReread ==
    \/ i_open
    \/ \E c \in InBindChoices : i_bind(c)
    \/ i_read_next_particle
    \/ i_read_loop
    \/ ifs.fin_open /\ i_close
    \/ \E f \in RereadFiles : i_reopen(f)

SpecReread == InitReread /\ [][NextReread]_vars

\* C28 (input stream reuse): when an input stream that was closed has opened
\* another file, no binding made for the previous file is left to be applied
\* by read_next_particle, and the file-scope and channel-scope metadata it
\* exposes are those a new stream gets from that file.
C28_ReaderReuse ==
    (hist.reopens > 0 /\ hist.i_op = "open" /\ hist.i_ret = "ok")
       => /\ ifs.m_boundChannels = << >>
          /\ ifs.m_fileMetadata
             = ifstream_open(ifs_constructed, file).m_fileMetadata
          /\ ifs.m_channelMetadata
             = ifstream_open(ifs_constructed, file).m_channelMetadata

\* C29 (the two name validators agree): for every name of at most 31 bytes
\* is_valid_name, the check of add_channel, bind and add_metadata, and
\* is_valid_channel_name, the check made when the header is written and
\* read, give the same answer.
C29_ValidatorsAgree ==
    (nv_bind.done /\ nv_open.done /\ Len(nv_name) <= 31)
       => nv_bind.value = nv_open.value

\* The partial header specification: one writer whose caller binds, among
\* others, a channel whose name bind() takes and write_header refuses, and
\* one reader of the file.
InitPartial ==
    /\ scn = "partial"
    /\ ofs = ofs_constructed /\ file = NoFile /\ ifs = ifs_constructed
    /\ hist = hist_init
    /\ lay = lay_init
    /\ cm_dest = type_int16 /\ cm_src = type_int16 /\ cm_result = NoProbe
    /\ nv_name = << >> /\ nv_bind = NoProbe /\ nv_open = NoProbe

NextPartial ==
    \/ \E c \in OutBindChoices : ~ifs.opened /\ o_bind(c)
    \/ ~ifs.opened /\ o_open
    \/ \E e \in ValueChoices : ~ifs.opened /\ o_write_next_particle(e)
    \/ ~ifs.opened /\ o_close
    \/ ofs.closed /\ i_open
    \/ ifs.opened /\ i_read_next_particle
    \/ i_read_loop
    \/ ifs.fin_open /\ i_close

SpecPartial == InitPartial /\ [][NextPartial]_vars

\* Does the header of file f run from the magic number to the last entry of
\* the channel table: the chunk section ends with the stop chunk, the
\* reserved field is there and the table holds as many entries as it counts.
HeaderComplete(f) ==
    /\ Len(f.chunks) > 0
    /\ f.chunks[Len(f.chunks)].tag = "Stop"
    /\ f.reserved = 4
    /\ Len(f.channels) = f.channelCount

\* C30 (finalized count implies complete file): the particle-count field of
\* a file an output stream wrote is non-negative only when open() wrote the
\* whole header and the compressed body was flushed to its end; after an
\* open() that failed inside the header the field stays at -1.
C30_FinalizedCountImpliesComplete ==
    (file.created /\ file.particleCount >= 0)
       => /\ HeaderComplete(file)
          /\ Len(file.body) > 0
          /\ file.body[Len(file.body)] = EndToken

===========================================================================
